---- MODULE Spec2Model ----
(***************************************************************************)
(* Fudano: the peer connection (src/src/peerConnection.ts), its session    *)
(* descriptions (sdp.ts, kept as src/unnamed/part_001) and the reduced     *)
(* SCTP association (src/src/sctp/sctp.ts) as one state machine.           *)
(*                                                                         *)
(* Every action is one handler of the code, run from its entry to its end  *)
(* or to its first await. The variables lastOp, ret, events, out and       *)
(* sctpEvents describe the step just taken: the handler that ran, how it   *)
(* ended (the message of the Error it threw), the notifications it         *)
(* emitted and the packets it handed to the transport; received holds the  *)
(* onReceive calls of the step, lastDataTsn the TSN of the last DATA chunk *)
(* the transport took.                                                     *)
(*                                                                         *)
(* Spec        : a peer connection with the association it owns.           *)
(* SpecIce     : a peer connection with ICE state changes and transports   *)
(*               whose start can fail.                                     *)
(* SpecRole    : a peer connection with full and ice-lite peers.           *)
(* SpecSdp     : the text of an offer, serialised and parsed.              *)
(* SpecConnect : a peer connection whose transports come up or fail.       *)
(* SpecDeliver : a client association that receives user data.            *)
(* SpecRenegotiate : a client that applies answers during connect().     *)
(* SpecCandidates : a peer connection that trickles gathered candidates.  *)
(* SpecSctp    : an association on its own (SCTP.client / SCTP.server).    *)
(* SpecStreams : an association that sends and reconfigures streams.       *)
(* SpecData    : an association with inbound and outbound user data.       *)
(* SpecSend    : an association that only sends user data.                 *)
(* SpecReset   : an association that resets streams, T-Reconfig unbounded. *)
(* SpecSilent  : an association whose peer stops answering, with timers    *)
(*               that fire.                                                *)
(***************************************************************************)
EXTENDS Integers, Sequences, FiniteSets, TLC

VARIABLES
    \* ---- RTCPeerConnection
    signalingState, connectionState, isClosed,
    pendingLocalDescription, currentLocalDescription,
    pendingRemoteDescription, currentRemoteDescription,
    sctpTransport, sctpRemotePort, transportEstablished,
    iceControlling, remoteIsLite, dtlsRole, dtlsState,
    negotiationneeded, shouldNegotiationneeded, negotiationTick,
    localTail, remoteTail, connects,
    retDesc, events,
    \* ---- the ICE transport of the peer connection and the aggregated state
    iceState, iceConnectionState,
    \* ---- the description createOffer built last, its text, and what
    \* ---- SessionDescription.parse made of the text
    sdpDescription, sdpText, sdpParsed,
    \* ---- the mid of the SCTP transport, the keys of the candidates sent, the
    \* ---- candidate notified last and every (foundation, mid) notified so far
    sctpMid, candidatesSent, icecandidate, notified,
    \* ---- SCTP
    associationState, started, state, isServer,
    remotePort, remoteVerificationTag,
    lastReceivedTsn, reconfigResponseSeq, reconfigRequestSeq, localTsn,
    sackMisOrdered, sackDuplicates, sackNeeded,
    inboundStreamsCount, outboundStreamsCount,
    outboundStreamSeq, reconfigRequest, reconfigQueue,
    rto,
    timer1Handle, timer1Chunk, timer1Failures,
    timer2Handle, timer2Chunk, timer2Failures,
    timerReconfigHandle, timerReconfigFailures,
    t1Deferred, t2Deferred,
    tagRevealed, lastDataTsn,
    out, sctpEvents, received,
    \* ---- the step just taken
    lastOp, ret

pcVars ==
    << signalingState, connectionState, isClosed,
       pendingLocalDescription, currentLocalDescription,
       pendingRemoteDescription, currentRemoteDescription,
       sctpTransport, sctpRemotePort, transportEstablished,
       iceControlling, remoteIsLite, dtlsRole, dtlsState,
       negotiationneeded, shouldNegotiationneeded, negotiationTick,
       localTail, remoteTail, connects, retDesc, events >>

iceVars == << iceState, iceConnectionState >>

sdpVars == << sdpDescription, sdpText, sdpParsed >>

candVars == << candidatesSent, icecandidate, notified >>

timerVars ==
    << timer1Handle, timer1Chunk, timer1Failures,
       timer2Handle, timer2Chunk, timer2Failures,
       timerReconfigHandle, timerReconfigFailures, t1Deferred, t2Deferred >>

tsnVars ==
    << lastReceivedTsn, reconfigResponseSeq, reconfigRequestSeq, localTsn >>

streamVars ==
    << inboundStreamsCount, outboundStreamsCount, outboundStreamSeq >>

reconfigVars == << reconfigRequest, reconfigQueue >>

sackVars == << sackMisOrdered, sackDuplicates, sackNeeded >>

sctpVars ==
    << associationState, started, state, isServer, remotePort,
       remoteVerificationTag, tsnVars, sackVars, streamVars, reconfigVars, rto,
       timerVars, tagRevealed, lastDataTsn, out, sctpEvents, received >>

stepVars == << lastOp, ret >>

vars == << pcVars, iceVars, sdpVars, candVars, sctpMid, sctpVars, stepVars >>

-----------------------------------------------------------------------------
(* Bounds of the model *)

\* media sections per session description
MaxMedia == 1
\* DATA chunks sent (the local TSN stays at most this far from its start)
MaxSeq == 1
\* expiries of T1 and of T2 that are followed
MaxExpiries == 2
\* the TSN space is 2^TsnBits wide in the model (2^32 in the code)
TsnBits == 4
\* T-Reconfig expiries are followed while rto is at most this
RtoCap == 5
\* stream ids waiting in reconfigQueue
MaxQueue == 1
\* inbound streams the peer adds with StreamAddOutgoing
MaxAdded == 1

-----------------------------------------------------------------------------
(* SCTP: constants of sctp.ts *)

COOKIE_LENGTH == 24
USERDATA_MAX_LENGTH == 1200
SCTP_DATA_LAST_FRAG == 1
SCTP_DATA_FIRST_FRAG == 2
SCTP_DATA_UNORDERED == 4
COOKIE_LIFETIME == 60
MAX_STREAMS == 65535
SCTP_MAX_ASSOCIATION_RETRANS == 10
SCTP_MAX_INIT_RETRANS == 8
SCTP_RTO_INITIAL == 3
SCTP_RTO_MIN == 1
SCTP_RTO_MAX == 60
SCTP_TSN_MODULO == 2 ^ TsnBits
RECONFIG_MAX_STREAMS == 135

\* random32() of this association (localVerificationTag) and of its peer
LocalTag == 1
PeerTag == 2
\* hmacKey = randomBytes(16), and a key that is not this association's
HmacKey == 11
OtherKey == 12

NoPort == 0
NoTsn == -9
Ports == {5000}
Streams == {1}

SCTP_STATES ==
    {"CLOSED", "COOKIE_WAIT", "COOKIE_ECHOED", "ESTABLISHED",
     "SHUTDOWN_PENDING", "SHUTDOWN_SENT", "SHUTDOWN_RECEIVED", "SHUTDOWN_ACK_SENT"}

\* JavaScript's % keeps the sign of the dividend
JsRem(a, m) == IF a >= 0 THEN a % m ELSE 0 - ((0 - a) % m)

tsnMinusOne(a) == JsRem(a - 1, SCTP_TSN_MODULO)

\* a successor that runs past the end of the TSN space
tsnPlusOne_NoWrap(a) == a + 1

tsnPlusOne(a) == JsRem(a + 1, SCTP_TSN_MODULO)

\* createHmac('sha1', key).update(first four bytes).digest()
Hmac(key, stamp) == << key, stamp >>

NoCookie == [stamp |-> 0, digest |-> << 0, 0 >>, len |-> 0]

\* the cookie the INIT handler builds at time `time`
StateCookie(time) ==
    [stamp |-> time, digest |-> Hmac(HmacKey, time), len |-> COOKIE_LENGTH]

NoParam == [ptype |-> "none", seq |-> 0, rseq |-> 0, tsn |-> 0, streams |-> << >>, result |-> 0]

\* a chunk, with the fields of the chunk classes that sctp.ts reads or writes
Chunk(type) ==
    [type |-> type, vtag |-> 0, initiateTag |-> 0, initialTsn |-> 0,
     outboundStreams |-> 0, inboundStreams |-> 0, cookie |-> NoCookie,
     param |-> NoParam, tsn |-> 0, streamId |-> 0, streamSeqNum |-> 0,
     flags |-> 0, userData |-> 0, cumulativeTsn |-> 0, gaps |-> << >>,
     duplicates |-> << >>]

NoChunk == Chunk("undefined")

\* sendChunk: nothing when the connection state is closed, a throw when the
\* remote port is unknown, else one packet carrying remoteVerificationTag
SendThrows(st, port) == st # "closed" /\ port = NoPort

SendChunk(st, port, vtag, chunk) ==
    IF st = "closed" \/ port = NoPort THEN << >>
    ELSE << [chunk EXCEPT !.vtag = vtag] >>

\* the local verification tag is on the wire once an INIT or INIT_ACK left
Reveals(pkts) == \E i \in 1..Len(pkts) : pkts[i].type \in {"INIT", "INIT_ACK"}

Min(a, b) == IF a < b THEN a ELSE b

\* the TSN of the last DATA chunk among pkts, or before if there is none
RECURSIVE LastData(_, _)
LastData(pkts, before) ==
    IF pkts = << >> THEN before
    ELSE LastData(Tail(pkts),
                  IF Head(pkts).type = "DATA" THEN Head(pkts).tsn ELSE before)

\* a | b on the three flag bits of a DATA chunk
FlagBits(a) == {b \in {1, 2, 4} : (a \div b) % 2 = 1}

BitOr(a, b) ==
    LET bits == FlagBits(a) \cup FlagBits(b)
    IN  (IF 1 \in bits THEN 1 ELSE 0) + (IF 2 \in bits THEN 2 ELSE 0)
          + (IF 4 \in bits THEN 4 ELSE 0)

\* uint32Gt and uint32Gte of common/number: a > b iff a # b and
\* (a - b) mod 2^32 < 2^31, on the TSN width of the model
uint32Gt(a, b) == a # b /\ (a - b) % SCTP_TSN_MODULO < SCTP_TSN_MODULO \div 2

uint32Gte(a, b) == a = b \/ uint32Gt(a, b)

\* String(n) of a number that is not negative, as its decimal digits
RECURSIVE Digits(_)
Digits(n) == IF n < 10 THEN << n >> ELSE Append(Digits(n \div 10), n % 10)

\* a < b on strings: by the first position where they differ, a proper
\* prefix first
StringLess(a, b) ==
    \E k \in 1..Len(b) :
        /\ \A j \in 1..(k - 1) : j <= Len(a) /\ a[j] = b[j]
        /\ (k > Len(a) \/ a[k] < b[k])

\* [...set].sort(): Array.prototype.sort without a comparator orders the
\* elements by their string conversions
RECURSIVE DefaultSort(_)
DefaultSort(set) ==
    IF set = {} THEN << >>
    ELSE LET first == CHOOSE x \in set :
                         \A y \in set \ {x} : StringLess(Digits(x), Digits(y))
         IN  << first >> \o DefaultSort(set \ {first})

\* uint16Add of common/number: (a + b) & 0xffff
uint16Add(a, b) == (a + b) % 65536

-----------------------------------------------------------------------------
(* SCTP: what the peer and the clock can hand to the association *)

\* 0 is the tag of an INIT and a wrong tag for every other chunk
Tags == {0, LocalTag}
Nows == {100}
InitialTsns == {0, 5}
\* values of random32() for the local initial TSN
LocalTsns == {0}
\* initial local TSNs of an association that carries data: the last TSN
\* before the wrap as well
DataLocalTsns == {0, SCTP_TSN_MODULO - 1}
\* initial local TSN of an association that only sends: two before the wrap
SendLocalTsns == {SCTP_TSN_MODULO - 2}
\* initialTsn of the peer of such an association
DataInitialTsns == {9, SCTP_TSN_MODULO - 1}
\* TSNs of the DATA chunks that arrive, cumulativeTsn of the FORWARD-TSNs
DataTsns == {9, 10, 11, SCTP_TSN_MODULO - 1, 0}
ForwardTsns == {9, 10}
\* userData.length of a payload
PayloadLengths == {USERDATA_MAX_LENGTH, USERDATA_MAX_LENGTH + 1}
PeerStreams == 1024
CookieStamps == {39, 40, 100, 101}

\* cookies a COOKIE_ECHO can carry: issued by this association at some
\* time, or forged (wrong key, digest of another stamp, truncated)
EchoCookies ==
    {StateCookie(t) : t \in CookieStamps}
    \cup {[stamp |-> 100, digest |-> Hmac(OtherKey, 100), len |-> COOKIE_LENGTH],
          [stamp |-> 100, digest |-> Hmac(HmacKey, 40), len |-> COOKIE_LENGTH],
          [stamp |-> 100, digest |-> Hmac(HmacKey, 100), len |-> 20]}

\* cookies an INIT_ACK can carry (opaque to the client)
AckCookies == {[stamp |-> 7, digest |-> Hmac(OtherKey, 7), len |-> COOKIE_LENGTH],
               [stamp |-> 8, digest |-> Hmac(OtherKey, 8), len |-> COOKIE_LENGTH]}

SuccessPerformed == 1

ResetRequest(seq, rseq, tsn, streams) ==
    [ptype |-> "OutgoingSSNResetRequest", seq |-> seq, rseq |-> rseq,
     tsn |-> tsn, streams |-> streams, result |-> 0]

ReconfigResponse(rseq, result) ==
    [ptype |-> "ReconfigResponse", seq |-> 0, rseq |-> rseq, tsn |-> 0,
     streams |-> << >>, result |-> result]

ReconfigChunk(param) == [Chunk("RECONFIG") EXCEPT !.param = param]

\* a verification tag other than 0 is known to the peer only once an INIT or
\* INIT_ACK of this association left; the transport delivers while it is up
Deliverable(type, tag) ==
    /\ dtlsState = "connected"
    /\ (type = "INIT" \/ tag # LocalTag \/ tagRevealed)

\* handleData: the tag a packet must carry
ExpectedTag(type) == IF type = "INIT" THEN 0 ELSE LocalTag

\* a packet that passes the tag check of handleData
Accepted(type) == Deliverable(type, ExpectedTag(type))

\* chunk types of the packets that arrive with a wrong tag
DropTypes == {"INIT", "DATA", "ABORT"}

-----------------------------------------------------------------------------
(* SCTP: pieces of handlers *)

\* the handler that ran (for a received packet, the type of its chunk) and
\* how it ended
Step(op, in, r) ==
    /\ lastOp' = (IF in = NoChunk THEN op ELSE in.type)
    /\ ret' = r

\* a connect() of the peer connection awaiting stateChanged.connected resumes
\* when the event fires; removeAllListeners() drops its subscription
OnSctpEvents(cs, evs) ==
    IF \E j \in 1..Len(evs) : evs[j] = "connected"
    THEN [i \in 1..Len(cs) |-> IF cs[i] = "sctp" THEN "done" ELSE cs[i]]
    ELSE IF \E j \in 1..Len(evs) : evs[j] = "closed"
         THEN SelectSeq(cs, LAMBDA c : c # "sctp")
    ELSE cs

\* the value undefined of a string
Undefined == "<undefined>"

\* the mid allocateMid(seenMid, 'dc') gives the first data section; a peer of
\* the same make offers the same
AllocatedMid == "0dc"

\* no candidate notified yet
NoCandidate == [foundation |-> Undefined, sdpMid |-> Undefined]

NoDesc == [type |-> "none", kinds |-> << >>, iceLite |-> FALSE]

pcRest ==
    << signalingState, connectionState, isClosed,
       pendingLocalDescription, currentLocalDescription,
       pendingRemoteDescription, currentRemoteDescription,
       sctpTransport, sctpRemotePort, transportEstablished,
       iceControlling, remoteIsLite, dtlsRole, dtlsState,
       negotiationneeded, shouldNegotiationneeded, negotiationTick,
       localTail, remoteTail, iceVars, sdpVars, candVars, sctpMid >>

\* an SCTP step seen from the peer connection
Coupled ==
    /\ connects' = OnSctpEvents(connects, sctpEvents')
    /\ retDesc' = NoDesc
    /\ events' = << >>
    /\ UNCHANGED pcRest

\* sendChunk: the packets the transport took in this step; tagRevealed and
\* lastDataTsn (the TSN of the last DATA chunk the transport took) record
\* what has left so far
Sent(pkts) ==
    /\ out' = pkts
    /\ tagRevealed' = (tagRevealed \/ Reveals(pkts))
    /\ lastDataTsn' = LastData(pkts, lastDataTsn)

\* timer1Cancel / timer2Cancel
Timer1Cancel ==
    /\ timer1Handle' = FALSE
    /\ timer1Chunk' = IF timer1Handle THEN NoChunk ELSE timer1Chunk

\* a timer2Cancel that leaves T2 running
Timer2Cancel_Kept == UNCHANGED << timer2Handle, timer2Chunk >>

Timer2Cancel ==
    /\ timer2Handle' = FALSE
    /\ timer2Chunk' = IF timer2Handle THEN NoChunk ELSE timer2Chunk

\* setState(CLOSED): both timers cancelled, connection state closed
SetStateClosed ==
    /\ associationState' = "CLOSED"
    /\ Timer1Cancel
    /\ Timer2Cancel
    /\ state' = "closed"
    /\ sctpEvents' = << "closed" >> /\ received' = << >>

\* setState(ESTABLISHED)
SetStateEstablished ==
    /\ associationState' = "ESTABLISHED"
    /\ state' = "connected"
    /\ sctpEvents' = << "connected" >> /\ received' = << >>

\* an ignored chunk that still sets sackNeeded and is answered with a SACK
NoEffect_Sacks ==
    /\ UNCHANGED << associationState, started, state, isServer, remotePort,
                    remoteVerificationTag, tsnVars, streamVars, reconfigVars,
                    rto, sackVars, timerVars >>
    /\ Sent(SendChunk(state, remotePort, remoteVerificationTag, Chunk("SACK")))
    /\ sctpEvents' = << >> /\ received' = << >>

\* a packet that handleData drops, or a chunk that receiveChunk ignores
NoEffect ==
    /\ UNCHANGED << associationState, started, state, isServer, remotePort,
                    remoteVerificationTag, tsnVars, streamVars, reconfigVars,
                    rto, sackVars, timerVars >>
    /\ Sent(<< >>)
    /\ sctpEvents' = << >> /\ received' = << >>

-----------------------------------------------------------------------------
(* SCTP: the public methods start, setRemotePort, stop and send *)

InitChunk ==
    [Chunk("INIT") EXCEPT !.initiateTag = LocalTag,
                          !.outboundStreams = outboundStreamsCount,
                          !.inboundStreams = MAX_STREAMS,
                          !.initialTsn = localTsn]

\* start(remotePort): once; a client sends INIT, arms T1, enters COOKIE_WAIT
\* (init() catches the throw of sendChunk and of timer1Start)
StartEffect(port, server) ==
    IF started THEN NoEffect
    ELSE LET rp == IF port # NoPort THEN port ELSE remotePort
             pkts == IF server THEN << >>
                     ELSE SendChunk("connecting", rp, remoteVerificationTag, InitChunk)
             entered == ~server /\ rp # NoPort /\ ~timer1Handle
         IN  /\ started' = TRUE
             /\ isServer' = server
             /\ remotePort' = rp
             /\ state' = "connecting"
             /\ sctpEvents' = << "connecting" >> /\ received' = << >>
             /\ Sent(pkts)
             /\ associationState' = IF entered THEN "COOKIE_WAIT" ELSE associationState
             /\ timer1Handle' = (timer1Handle \/ entered)
             /\ timer1Chunk' = IF entered THEN InitChunk ELSE timer1Chunk
             /\ timer1Failures' = IF entered THEN 0 ELSE timer1Failures
             /\ UNCHANGED << remoteVerificationTag, tsnVars, streamVars,
                             reconfigVars, rto, sackVars, timer2Handle, timer2Chunk,
                             timer2Failures, timerReconfigHandle,
                             timerReconfigFailures, t1Deferred, t2Deferred >>

Start(port) ==
    /\ StartEffect(port, isServer)
    /\ Step("start", NoChunk, "ok")
    /\ Coupled

SetRemotePort(port) ==
    /\ remotePort' = port
    /\ UNCHANGED << associationState, started, state, isServer,
                    remoteVerificationTag, tsnVars, streamVars, reconfigVars,
                    rto, sackVars, timerVars >>
    /\ Sent(<< >>)
    /\ sctpEvents' = << >> /\ received' = << >>
    /\ Step("setRemotePort", NoChunk, "ok")
    /\ Coupled

\* abort() inside stop() throws out of stop() when sendChunk throws
StopThrows == associationState # "CLOSED" /\ SendThrows(state, remotePort)

\* stop(): ABORT unless the association is CLOSED, then setState(CLOSED);
\* the clearTimeout calls that follow find both handles cleared
StopEffect ==
    IF StopThrows THEN NoEffect
    ELSE /\ SetStateClosed
         /\ Sent(IF associationState # "CLOSED"
                 THEN SendChunk(state, remotePort, remoteVerificationTag, Chunk("ABORT"))
                 ELSE << >>)
         /\ UNCHANGED << started, isServer, remotePort, remoteVerificationTag,
                         tsnVars, streamVars, reconfigVars, rto, sackVars,
                         timer1Failures, timer2Failures, timerReconfigHandle,
                         timerReconfigFailures, t1Deferred, t2Deferred >>

Stop ==
    /\ StopEffect
    /\ Step("stop", NoChunk, IF StopThrows THEN "invalid remote port" ELSE "ok")
    /\ Coupled

\* send(streamId, ppId, userData, {ordered}): one DATA chunk, in any state
\* TSNs at which send() is followed: MaxSeq sends from each initial local TSN
SendStarts == LocalTsns \cup DataLocalTsns \cup SendLocalTsns

Sendable(tsn) ==
    \E start \in SendStarts, k \in 0..(MaxSeq - 1) :
        tsn = (start + k) % SCTP_TSN_MODULO

\* send(streamId, ppId, userData, {ordered}) and transmit(chunk); userData is
\* the length of the payload
Send(streamId, ordered, userData) ==
    LET streamSeqNum == IF ordered THEN outboundStreamSeq[streamId] ELSE 0
        flags == BitOr(BitOr(IF ordered THEN 0 ELSE SCTP_DATA_UNORDERED,
                             SCTP_DATA_FIRST_FRAG), SCTP_DATA_LAST_FRAG)
        chunk == [Chunk("DATA") EXCEPT !.tsn = localTsn, !.streamId = streamId,
                                       !.streamSeqNum = streamSeqNum,
                                       !.flags = flags, !.userData = userData]
    IN  /\ Sendable(localTsn)
        /\ localTsn' = tsnPlusOne(localTsn)
        /\ outboundStreamSeq' =
              IF ordered
              THEN [outboundStreamSeq EXCEPT ![streamId] = uint16Add(streamSeqNum, 1)]
              ELSE outboundStreamSeq
        /\ Sent(SendChunk(state, remotePort, remoteVerificationTag, chunk))
        /\ sctpEvents' = << >> /\ received' = << >>
        /\ UNCHANGED << associationState, started, state, isServer, remotePort,
                        remoteVerificationTag, lastReceivedTsn, reconfigResponseSeq,
                        reconfigRequestSeq, inboundStreamsCount,
                        outboundStreamsCount, reconfigVars, rto, sackVars, timerVars >>
        /\ Step("send", NoChunk,
                IF SendThrows(state, remotePort) THEN "invalid remote port" ELSE "ok")
        /\ Coupled

-----------------------------------------------------------------------------
(* SCTP: handleData / receiveChunk, one action per chunk type *)

\* a handleData that lets an ABORT through whatever tag it carries
HandleDataDrop_Abort(type, tag) ==
    /\ Deliverable(type, tag)
    /\ tag # ExpectedTag(type)
    /\ IF type = "ABORT"
       THEN /\ SetStateClosed
            /\ Sent(<< >>)
            /\ UNCHANGED << started, isServer, remotePort, remoteVerificationTag,
                            tsnVars, streamVars, reconfigVars, rto, sackVars,
                            timer1Failures, timer2Failures, timerReconfigHandle,
                            timerReconfigFailures, t1Deferred, t2Deferred >>
       ELSE NoEffect
    /\ lastOp' = "handleData"
    /\ ret' = "dropped"
    /\ Coupled

\* handleData returns before receiveChunk when the tag is not the expected one
HandleDataDrop(type, tag) ==
    /\ Deliverable(type, tag)
    /\ tag # ExpectedTag(type)
    /\ NoEffect
    /\ lastOp' = "handleData"
    /\ ret' = "dropped"
    /\ Coupled

ReceiveInit(initiateTag, initialTsn, now) ==
    LET in == [Chunk("INIT") EXCEPT !.initiateTag = initiateTag,
                                    !.initialTsn = initialTsn,
                                    !.outboundStreams = PeerStreams,
                                    !.inboundStreams = PeerStreams]
        inCount == Min(in.outboundStreams, MAX_STREAMS)
        outCount == Min(outboundStreamsCount, in.inboundStreams)
        ack == [Chunk("INIT_ACK") EXCEPT !.initiateTag = LocalTag,
                                        !.outboundStreams = outCount,
                                        !.inboundStreams = inCount,
                                        !.initialTsn = localTsn,
                                        !.cookie = StateCookie(now)]
    IN  /\ Accepted("INIT")
        /\ IF ~isServer THEN NoEffect /\ Step("receive", in, "ignored")
           ELSE /\ lastReceivedTsn' = tsnMinusOne(initialTsn)
                /\ reconfigResponseSeq' = tsnMinusOne(initialTsn)
                /\ remoteVerificationTag' = initiateTag
                /\ inboundStreamsCount' = inCount
                /\ outboundStreamsCount' = outCount
                /\ Sent(SendChunk(state, remotePort, initiateTag, ack))
                /\ sctpEvents' = << >> /\ received' = << >>
                /\ UNCHANGED << associationState, started, state, isServer,
                                remotePort, reconfigRequestSeq, localTsn,
                                outboundStreamSeq, reconfigVars, rto, sackVars, timerVars >>
                /\ Step("receive", in,
                        IF SendThrows(state, remotePort) THEN "invalid remote port"
                        ELSE "ok")
        /\ Coupled

ReceiveInitAck(initiateTag, initialTsn, cookie) ==
    LET in == [Chunk("INIT_ACK") EXCEPT !.initiateTag = initiateTag,
                                        !.initialTsn = initialTsn,
                                        !.outboundStreams = PeerStreams,
                                        !.inboundStreams = PeerStreams,
                                        !.cookie = cookie]
        echo == [Chunk("COOKIE_ECHO") EXCEPT !.cookie = cookie]
        threw == SendThrows(state, remotePort)
    IN  /\ Accepted("INIT_ACK")
        /\ IF associationState # "COOKIE_WAIT"
                THEN NoEffect /\ Step("receive", in, "ignored")
           ELSE /\ lastReceivedTsn' = tsnMinusOne(initialTsn)
                /\ reconfigResponseSeq' = tsnMinusOne(initialTsn)
                /\ remoteVerificationTag' = initiateTag
                /\ inboundStreamsCount' = Min(in.outboundStreams, MAX_STREAMS)
                /\ outboundStreamsCount' = Min(outboundStreamsCount, in.inboundStreams)
                /\ Sent(SendChunk(state, remotePort, initiateTag, echo))
                /\ sctpEvents' = << >> /\ received' = << >>
                \* timer1Cancel, then (unless sendChunk threw) timer1Start(echo)
                /\ timer1Handle' = ~threw
                /\ timer1Chunk' = IF ~threw THEN echo
                                  ELSE IF timer1Handle THEN NoChunk ELSE timer1Chunk
                /\ timer1Failures' = IF threw THEN timer1Failures ELSE 0
                /\ associationState' = IF threw THEN associationState ELSE "COOKIE_ECHOED"
                /\ UNCHANGED << started, state, isServer, remotePort,
                                reconfigRequestSeq, localTsn, outboundStreamSeq,
                                reconfigVars, rto, sackVars, timer2Handle, timer2Chunk,
                                timer2Failures, timerReconfigHandle,
                                timerReconfigFailures, t1Deferred, t2Deferred >>
                /\ Step("receive", in, IF threw THEN "invalid remote port" ELSE "ok")
        /\ Coupled

\* the two checks of the COOKIE_ECHO handler
CookieInvalid(cookie) ==
    cookie.len # COOKIE_LENGTH \/ cookie.digest # Hmac(HmacKey, cookie.stamp)

CookieStale(stamp, now) == stamp < now - COOKIE_LIFETIME \/ stamp > now

\* new ErrorChunk(0, undefined) with the parameter ErrorChunk.CODE.StaleCookieError
StaleCookieError ==
    [Chunk("ERROR") EXCEPT !.param = [NoParam EXCEPT !.ptype = "StaleCookieError"]]

ReceiveCookieEcho(cookie, now) ==
    LET in == [Chunk("COOKIE_ECHO") EXCEPT !.cookie = cookie]
        threw == SendThrows(state, remotePort)
    IN  /\ Accepted("COOKIE_ECHO")
        /\ IF ~isServer THEN NoEffect /\ Step("receive", in, "ignored")
           ELSE IF CookieInvalid(cookie) THEN NoEffect /\ Step("receive", in, "invalid cookie")
           ELSE IF CookieStale(cookie.stamp, now)
                THEN /\ Sent(SendChunk(state, remotePort, remoteVerificationTag,
                                       StaleCookieError))
                     /\ sctpEvents' = << >> /\ received' = << >>
                     /\ UNCHANGED << associationState, started, state, isServer,
                                     remotePort, remoteVerificationTag, tsnVars,
                                     streamVars, reconfigVars, rto, sackVars, timerVars >>
                     /\ Step("receive", in,
                             IF threw THEN "invalid remote port" ELSE "stale cookie")
           ELSE IF threw
                THEN NoEffect /\ Step("receive", in, "invalid remote port")
           ELSE /\ Sent(SendChunk(state, remotePort, remoteVerificationTag,
                                  Chunk("COOKIE_ACK")))
                /\ SetStateEstablished
                /\ UNCHANGED << started, isServer, remotePort,
                                remoteVerificationTag, tsnVars, streamVars,
                                reconfigVars, rto, sackVars, timerVars >>
                /\ Step("receive", in, "ok")
        /\ Coupled

ReceiveCookieAck ==
    LET in == Chunk("COOKIE_ACK")
    IN  /\ Accepted("COOKIE_ACK")
        /\ IF associationState # "COOKIE_ECHOED"
                THEN NoEffect /\ Step("receive", in, "ignored")
           ELSE /\ Timer1Cancel
                /\ SetStateEstablished
                /\ Sent(<< >>)
                /\ UNCHANGED << started, isServer, remotePort,
                                remoteVerificationTag, tsnVars, streamVars,
                                reconfigVars, rto, sackVars, timer1Failures, timer2Handle,
                                timer2Chunk, timer2Failures, timerReconfigHandle,
                                timerReconfigFailures, t1Deferred, t2Deferred >>
                /\ Step("receive", in, "ok")
        /\ Coupled

ReceiveAbort ==
    LET in == Chunk("ABORT")
    IN  /\ Accepted("ABORT")
        /\ /\ SetStateClosed
                /\ Sent(<< >>)
                /\ UNCHANGED << started, isServer, remotePort,
                                remoteVerificationTag, tsnVars, streamVars,
                                reconfigVars, rto, sackVars, timer1Failures, timer2Failures,
                                timerReconfigHandle, timerReconfigFailures,
                                t1Deferred, t2Deferred >>
                /\ Step("receive", in, "ok")
        /\ Coupled

\* the state the SHUTDOWN handler ends in, and the state the
\* SHUTDOWN_COMPLETE handler waits for
AfterShutdownAck == "SHUTDOWN_SENT"

AwaitsShutdownComplete == "SHUTDOWN_ACK_SENT"

ReceiveShutdown ==
    LET in == Chunk("SHUTDOWN")
        ack == Chunk("SHUTDOWN_ACK")
        threw == SendThrows(state, remotePort)
    IN  /\ Accepted("SHUTDOWN")
        /\ \* timer2Cancel, setState(SHUTDOWN_RECEIVED), send, t2Start, setState
                /\ Sent(SendChunk(state, remotePort, remoteVerificationTag, ack))
                /\ sctpEvents' = << >> /\ received' = << >>
                /\ timer2Handle' = ~threw
                /\ timer2Chunk' = IF ~threw THEN ack
                                  ELSE IF timer2Handle THEN NoChunk ELSE timer2Chunk
                /\ timer2Failures' = IF threw THEN timer2Failures ELSE 0
                /\ associationState' = IF threw THEN "SHUTDOWN_RECEIVED"
                                       ELSE AfterShutdownAck
                /\ UNCHANGED << started, state, isServer, remotePort,
                                remoteVerificationTag, tsnVars, streamVars,
                                reconfigVars, rto, sackVars, timer1Handle, timer1Chunk,
                                timer1Failures, timerReconfigHandle,
                                timerReconfigFailures, t1Deferred, t2Deferred >>
                /\ Step("receive", in, IF threw THEN "invalid remote port" ELSE "ok")
        /\ Coupled

ReceiveShutdownComplete ==
    LET in == Chunk("SHUTDOWN_COMPLETE")
    IN  /\ Accepted("SHUTDOWN_COMPLETE")
        /\ IF associationState # AwaitsShutdownComplete
                THEN NoEffect /\ Step("receive", in, "ignored")
           ELSE /\ SetStateClosed
                /\ Sent(<< >>)
                /\ UNCHANGED << started, isServer, remotePort,
                                remoteVerificationTag, tsnVars, streamVars,
                                reconfigVars, rto, sackVars, timer1Failures, timer2Failures,
                                timerReconfigHandle, timerReconfigFailures,
                                t1Deferred, t2Deferred >>
                /\ Step("receive", in, "ok")
        /\ Coupled

ReceiveHeartbeat ==
    LET in == Chunk("HEARTBEAT")
    IN  /\ Accepted("HEARTBEAT")
        /\ /\ Sent(SendChunk(state, remotePort, remoteVerificationTag,
                                  Chunk("HEARTBEAT_ACK")))
                /\ sctpEvents' = << >> /\ received' = << >>
                /\ UNCHANGED << associationState, started, state, isServer,
                                remotePort, remoteVerificationTag, tsnVars,
                                streamVars, reconfigVars, rto, sackVars, timerVars >>
                /\ Step("receive", in,
                        IF SendThrows(state, remotePort) THEN "invalid remote port"
                        ELSE "ok")
        /\ Coupled

\* SACK ("don't care") and ERROR (logged)
ReceiveUnused(type) ==
    LET in == Chunk(type)
    IN  /\ Accepted(type)
        /\ NoEffect
        /\ Step("receive", in, "ok")
        /\ Coupled

-----------------------------------------------------------------------------
(* SCTP: inbound DATA and FORWARD-TSN, and the SACK that answers them *)

\* the loop of markReceived and receiveForwardTsnChunk over the sorted
\* out-of-order TSNs: advance while the next one follows, stop at the first
\* that does not
RECURSIVE Advance(_, _)
Advance(last, sorted) ==
    IF sorted # << >> /\ Head(sorted) = tsnPlusOne(last)
    THEN Advance(Head(sorted), Tail(sorted))
    ELSE last

\* markReceived(tsn): lastReceivedTsn, sackMisOrdered and sackDuplicates
\* after the call
MarkReceived(tsn) ==
    IF uint32Gte(lastReceivedTsn, tsn) \/ tsn \in sackMisOrdered
    THEN [last |-> lastReceivedTsn, misOrdered |-> sackMisOrdered,
          duplicates |-> Append(sackDuplicates, tsn)]
    ELSE LET added == sackMisOrdered \cup {tsn}
             last == Advance(lastReceivedTsn, DefaultSort(added))
         IN  [last |-> last,
              misOrdered |-> {x \in added : uint32Gt(x, last)},
              duplicates |-> SelectSeq(sackDuplicates, LAMBDA x : uint32Gt(x, last))]

\* receiveForwardTsnChunk(chunk): the same three fields after the call
ForwardTsn(cumulativeTsn) ==
    IF uint32Gte(lastReceivedTsn, cumulativeTsn)
    THEN [last |-> lastReceivedTsn, misOrdered |-> sackMisOrdered,
          duplicates |-> sackDuplicates]
    ELSE LET kept == {x \in sackMisOrdered : uint32Gt(x, cumulativeTsn)}
             last == Advance(cumulativeTsn, DefaultSort(kept))
         IN  [last |-> last,
              misOrdered |-> {x \in kept : uint32Gt(x, last)},
              duplicates |-> SelectSeq(sackDuplicates, LAMBDA x : uint32Gt(x, last))]

\* the gap blocks sendSack builds from the sorted out-of-order TSNs
RECURSIVE Gaps(_, _, _, _)
Gaps(sorted, last, gaps, gapNext) ==
    IF sorted = << >> THEN gaps
    ELSE LET tsn == Head(sorted)
             pos == JsRem(tsn - last, SCTP_TSN_MODULO)
         IN  Gaps(Tail(sorted), last,
                  IF tsn = gapNext
                  THEN [gaps EXCEPT ![Len(gaps)] = << gaps[Len(gaps)][1], pos >>]
                  ELSE Append(gaps, << pos, pos >>),
                  tsnPlusOne(tsn))

SackChunk(last, misOrdered, duplicates) ==
    [Chunk("SACK") EXCEPT !.cumulativeTsn = last,
                          !.gaps = Gaps(DefaultSort(misOrdered), last, << >>, NoTsn),
                          !.duplicates = duplicates]

\* the end of handleData once sackNeeded is set: sendSack(); a sendChunk that
\* throws leaves sackDuplicates and sackNeeded as they are
SendSack(m) ==
    /\ Sent(SendChunk(state, remotePort, remoteVerificationTag,
                      SackChunk(m.last, m.misOrdered, m.duplicates)))
    /\ sackDuplicates' = IF SendThrows(state, remotePort) THEN m.duplicates ELSE << >>
    /\ sackNeeded' = SendThrows(state, remotePort)

\* the fields a DATA or FORWARD-TSN chunk leaves alone
DataRest ==
    << associationState, started, state, isServer, remotePort,
       remoteVerificationTag, reconfigResponseSeq, reconfigRequestSeq, localTsn,
       streamVars, reconfigVars, rto, timerVars >>

\* a receiveDataChunk that does not deliver a chunk whose TSN it has seen
ReceiveData_OncePerTsn(tsn, streamId, userData) ==
    /\ Accepted("DATA")
    /\ lastReceivedTsn # NoTsn
    /\ received' = IF MarkReceived(tsn).duplicates # sackDuplicates
                   THEN << >>
                   ELSE << [streamId |-> streamId, userData |-> userData] >>
    /\ lastReceivedTsn' = MarkReceived(tsn).last
    /\ sackMisOrdered' = MarkReceived(tsn).misOrdered
    /\ SendSack(MarkReceived(tsn))
    /\ sctpEvents' = << >>
    /\ UNCHANGED DataRest
    /\ Step("receive", [Chunk("DATA") EXCEPT !.tsn = tsn],
            IF SendThrows(state, remotePort) THEN "invalid remote port" ELSE "ok")
    /\ Coupled

\* DATA: receiveDataChunk, in whatever state the association is, then
\* sendSack. (The peer sends DATA after its INIT or INIT_ACK, so
\* lastReceivedTsn is set.)
ReceiveData(tsn, streamId, userData) ==
    LET in == [Chunk("DATA") EXCEPT !.tsn = tsn, !.streamId = streamId,
                                    !.userData = userData]
        m == MarkReceived(tsn)
    IN  /\ Accepted("DATA")
        /\ lastReceivedTsn # NoTsn
        /\ lastReceivedTsn' = m.last
        /\ sackMisOrdered' = m.misOrdered
        /\ received' = << [streamId |-> streamId, userData |-> userData] >>
        /\ SendSack(m)
        /\ sctpEvents' = << >>
        /\ UNCHANGED DataRest
        /\ Step("receive", in,
                IF SendThrows(state, remotePort) THEN "invalid remote port" ELSE "ok")
        /\ Coupled

\* FORWARD-TSN: receiveForwardTsnChunk, then sendSack
ReceiveForwardTsn(cumulativeTsn) ==
    LET in == [Chunk("FORWARD_TSN") EXCEPT !.cumulativeTsn = cumulativeTsn]
        m == ForwardTsn(cumulativeTsn)
    IN  /\ Accepted("FORWARD_TSN")
        /\ lastReceivedTsn # NoTsn
        /\ lastReceivedTsn' = m.last
        /\ sackMisOrdered' = m.misOrdered
        /\ received' = << >>
        /\ SendSack(m)
        /\ sctpEvents' = << >>
        /\ UNCHANGED DataRest
        /\ Step("receive", in,
                IF SendThrows(state, remotePort) THEN "invalid remote port" ELSE "ok")
        /\ Coupled

-----------------------------------------------------------------------------
(* SCTP: RECONFIG chunks *)

\* the inputs of the peer's reconfiguration parameters
ReqSeqs == {6}
AddSeqs == {7}
RespSeqs == {0, 1}
Results == {0, SuccessPerformed}

\* stream ids of a request whose outbound sequence number is truthy
Truthy(streams) == SelectSeq(streams, LAMBDA sid : outboundStreamSeq[sid] # 0)

\* transmitReconfigRequest sends when it has a queue, the association is
\* ESTABLISHED and no request is outstanding
Transmits(queue, request) ==
    Len(queue) > 0 /\ associationState = "ESTABLISHED" /\ request = NoParam

\* timerReconfigHandleStart returns at once while the handle is set
ReconfigHandleStarted == IF timerReconfigHandle = "none" THEN "armed" ELSE timerReconfigHandle

ReceiveResetRequest(seq, streams) ==
    LET p == ResetRequest(seq, 0, 0, streams)
        in == ReconfigChunk(p)
        response == ReconfigChunk(ReconfigResponse(seq, SuccessPerformed))
        threw == SendThrows(state, remotePort)
        queue == reconfigQueue \o Truthy(streams)
        transmits == Transmits(queue, reconfigRequest)
        param == ResetRequest(reconfigRequestSeq, seq, tsnMinusOne(localTsn), queue)
    IN  /\ Accepted("RECONFIG")
        /\ Len(queue) <= MaxQueue
        /\ IF associationState # "ESTABLISHED"
                THEN NoEffect /\ Step("receive", in, "ignored")
           ELSE IF threw
                THEN /\ reconfigResponseSeq' = seq
                     /\ Sent(<< >>)
                     /\ sctpEvents' = << >> /\ received' = << >>
                     /\ UNCHANGED << associationState, started, state, isServer,
                                     remotePort, remoteVerificationTag,
                                     lastReceivedTsn, reconfigRequestSeq, localTsn,
                                     streamVars, reconfigVars, rto, sackVars, timerVars >>
                     /\ Step("receive", in, "invalid remote port")
           ELSE /\ reconfigResponseSeq' = seq
                /\ reconfigQueue' = IF transmits THEN << >> ELSE queue
                /\ reconfigRequest' = IF transmits THEN param ELSE reconfigRequest
                /\ reconfigRequestSeq' = IF transmits THEN tsnPlusOne(reconfigRequestSeq)
                                         ELSE reconfigRequestSeq
                /\ Sent(SendChunk(state, remotePort, remoteVerificationTag, response)
                        \o (IF transmits
                            THEN SendChunk(state, remotePort, remoteVerificationTag,
                                           ReconfigChunk(param))
                            ELSE << >>))
                /\ timerReconfigHandle' = IF transmits THEN ReconfigHandleStarted
                                          ELSE timerReconfigHandle
                /\ timerReconfigFailures' =
                      IF transmits /\ timerReconfigHandle = "none" THEN 0
                      ELSE timerReconfigFailures
                /\ sctpEvents' = << >> /\ received' = << >>
                /\ UNCHANGED << associationState, started, state, isServer,
                                remotePort, remoteVerificationTag, lastReceivedTsn,
                                localTsn, streamVars, rto, sackVars, timer1Handle, timer1Chunk,
                                timer1Failures, timer2Handle, timer2Chunk,
                                timer2Failures, t1Deferred, t2Deferred >>
                /\ Step("receive", in, "ok")
        /\ Coupled

ReceiveReconfigResponse(rseq, result) ==
    LET in == ReconfigChunk(ReconfigResponse(rseq, result))
        matches == /\ result = SuccessPerformed
                   /\ reconfigRequest # NoParam
                   /\ rseq = reconfigRequest.seq
        reset == reconfigRequest.streams
        transmits == Transmits(reconfigQueue, NoParam)
        threw == transmits /\ SendThrows(state, remotePort)
        param == ResetRequest(reconfigRequestSeq, reconfigResponseSeq,
                              tsnMinusOne(localTsn), reconfigQueue)
    IN  /\ Accepted("RECONFIG")
        /\ IF associationState # "ESTABLISHED"
                THEN NoEffect /\ Step("receive", in, "ignored")
           ELSE IF ~matches THEN NoEffect /\ Step("receive", in, "ok")
           ELSE /\ outboundStreamSeq' =
                      [sid \in Streams |->
                          IF \E i \in 1..Len(reset) : reset[i] = sid THEN 0
                          ELSE outboundStreamSeq[sid]]
                /\ reconfigRequest' = IF transmits THEN param ELSE NoParam
                /\ reconfigQueue' = IF transmits THEN << >> ELSE reconfigQueue
                /\ reconfigRequestSeq' = IF transmits THEN tsnPlusOne(reconfigRequestSeq)
                                         ELSE reconfigRequestSeq
                /\ Sent(IF transmits
                        THEN SendChunk(state, remotePort, remoteVerificationTag,
                                       ReconfigChunk(param))
                        ELSE << >>)
                \* timerReconfigCancel, then timerReconfigHandleStart
                /\ timerReconfigHandle' = IF transmits /\ ~threw THEN "armed" ELSE "none"
                /\ timerReconfigFailures' = IF transmits /\ ~threw THEN 0
                                            ELSE timerReconfigFailures
                /\ sctpEvents' = << >> /\ received' = << >>
                /\ UNCHANGED << associationState, started, state, isServer,
                                remotePort, remoteVerificationTag, lastReceivedTsn,
                                reconfigResponseSeq, localTsn, inboundStreamsCount,
                                outboundStreamsCount, rto, sackVars, timer1Handle, timer1Chunk,
                                timer1Failures, timer2Handle, timer2Chunk,
                                timer2Failures, t1Deferred, t2Deferred >>
                /\ Step("receive", in, IF threw THEN "invalid remote port" ELSE "ok")
        /\ Coupled

StreamAdd(seq, newStreams) ==
    [ptype |-> "StreamAddOutgoing", seq |-> seq, rseq |-> 0, tsn |-> 0,
     streams |-> << >>, result |-> newStreams]

\* RECONFIG with a StreamAddOutgoing parameter: the count of inbound streams
\* grows and a response with result 1 is sent
ReceiveStreamAdd(seq, newStreams) ==
    LET in == ReconfigChunk(StreamAdd(seq, newStreams))
        response == ReconfigChunk(ReconfigResponse(seq, 1))
    IN  /\ Accepted("RECONFIG")
        /\ inboundStreamsCount < PeerStreams + MaxAdded
        /\ IF associationState # "ESTABLISHED"
                THEN NoEffect /\ Step("receive", in, "ignored")
           ELSE /\ inboundStreamsCount' = inboundStreamsCount + newStreams
                /\ reconfigResponseSeq' = seq
                /\ Sent(SendChunk(state, remotePort, remoteVerificationTag, response))
                /\ sctpEvents' = << >> /\ received' = << >>
                /\ UNCHANGED << associationState, started, state, isServer,
                                remotePort, remoteVerificationTag, lastReceivedTsn,
                                reconfigRequestSeq, localTsn, outboundStreamsCount,
                                outboundStreamSeq, reconfigVars, rto, sackVars,
                                timerVars >>
                /\ Step("receive", in,
                        IF SendThrows(state, remotePort) THEN "invalid remote port"
                        ELSE "ok")
        /\ Coupled

-----------------------------------------------------------------------------
(* SCTP: timer callbacks and the retransmissions they defer *)

\* timer1Expired / timer2Expired past the retry limit: setState(CLOSED) with
\* the expired handle already cleared
Timer1Callback ==
    /\ timer1Handle /\ ~t1Deferred
    /\ timer1Failures' = timer1Failures + 1
    /\ IF timer1Failures + 1 > SCTP_MAX_INIT_RETRANS
       THEN /\ associationState' = "CLOSED"
            /\ timer1Handle' = FALSE
            /\ timer1Chunk' = timer1Chunk
            /\ Timer2Cancel
            /\ state' = "closed"
            /\ sctpEvents' = << "closed" >> /\ received' = << >>
            /\ t1Deferred' = FALSE
       ELSE /\ t1Deferred' = TRUE
            /\ sctpEvents' = << >> /\ received' = << >>
            /\ UNCHANGED << associationState, state, timer1Handle, timer1Chunk,
                            timer2Handle, timer2Chunk >>
    /\ Sent(<< >>)
    /\ UNCHANGED << started, isServer, remotePort, remoteVerificationTag, tsnVars,
                    streamVars, reconfigVars, rto, sackVars, timer2Failures,
                    timerReconfigHandle, timerReconfigFailures, t2Deferred >>
    /\ Step("timer1Expired", NoChunk, "ok")
    /\ Coupled

\* the expiries of T1 that the larger specifications follow
Timer1Expired == timer1Failures < MaxExpiries /\ Timer1Callback

Timer2Callback ==
    /\ timer2Handle /\ ~t2Deferred
    /\ timer2Failures' = timer2Failures + 1
    /\ IF timer2Failures + 1 > SCTP_MAX_ASSOCIATION_RETRANS
       THEN /\ associationState' = "CLOSED"
            /\ timer2Handle' = FALSE
            /\ timer2Chunk' = timer2Chunk
            /\ Timer1Cancel
            /\ state' = "closed"
            /\ sctpEvents' = << "closed" >> /\ received' = << >>
            /\ t2Deferred' = FALSE
       ELSE /\ t2Deferred' = TRUE
            /\ sctpEvents' = << >> /\ received' = << >>
            /\ UNCHANGED << associationState, state, timer1Handle, timer1Chunk,
                            timer2Handle, timer2Chunk >>
    /\ Sent(<< >>)
    /\ UNCHANGED << started, isServer, remotePort, remoteVerificationTag, tsnVars,
                    streamVars, reconfigVars, rto, sackVars, timer1Failures,
                    timerReconfigHandle, timerReconfigFailures, t1Deferred >>
    /\ Step("timer2Expired", NoChunk, "ok")
    /\ Coupled

\* the expiries of T2 that the larger specifications follow
Timer2Expired == timer2Failures < MaxExpiries /\ Timer2Callback

\* sendChunk(chunk) run from setImmediate: the chunk the timer holds by then
DeferredRet(chunk) ==
    IF state = "closed" THEN "ok"
    ELSE IF remotePort = NoPort THEN "invalid remote port"
    ELSE IF chunk = NoChunk THEN "undefined chunk"
    ELSE "ok"

DeferredSend(chunk) ==
    IF chunk = NoChunk THEN << >>
    ELSE SendChunk(state, remotePort, remoteVerificationTag, chunk)

\* a deferred retransmission of T1 that hands nothing to the transport
T1DeferredSend_Lost ==
    /\ t1Deferred
    /\ t1Deferred' = FALSE
    /\ Sent(<< >>)
    /\ sctpEvents' = << >> /\ received' = << >>
    /\ UNCHANGED << associationState, started, state, isServer, remotePort,
                    remoteVerificationTag, tsnVars, streamVars, reconfigVars, rto, sackVars,
                    timer1Handle, timer1Chunk, timer1Failures, timer2Handle,
                    timer2Chunk, timer2Failures, timerReconfigHandle,
                    timerReconfigFailures, t2Deferred >>
    /\ Step("timer1Send", NoChunk, "ok")
    /\ Coupled

T1DeferredSend ==
    /\ t1Deferred
    /\ t1Deferred' = FALSE
    /\ Sent(DeferredSend(timer1Chunk))
    /\ sctpEvents' = << >> /\ received' = << >>
    /\ UNCHANGED << associationState, started, state, isServer, remotePort,
                    remoteVerificationTag, tsnVars, streamVars, reconfigVars, rto, sackVars,
                    timer1Handle, timer1Chunk, timer1Failures, timer2Handle,
                    timer2Chunk, timer2Failures, timerReconfigHandle,
                    timerReconfigFailures, t2Deferred >>
    /\ Step("timer1Send", NoChunk, DeferredRet(timer1Chunk))
    /\ Coupled

T2DeferredSend ==
    /\ t2Deferred
    /\ t2Deferred' = FALSE
    /\ Sent(DeferredSend(timer2Chunk))
    /\ sctpEvents' = << >> /\ received' = << >>
    /\ UNCHANGED << associationState, started, state, isServer, remotePort,
                    remoteVerificationTag, tsnVars, streamVars, reconfigVars, rto, sackVars,
                    timer1Handle, timer1Chunk, timer1Failures, timer2Handle,
                    timer2Chunk, timer2Failures, timerReconfigHandle,
                    timerReconfigFailures, t1Deferred >>
    /\ Step("timer2Send", NoChunk, DeferredRet(timer2Chunk))
    /\ Coupled

\* a back-off that doubles
BackOff_Double(r) == 2 * r

\* Math.ceil(rto * 1.5)
BackOff(r) == (3 * r + 1) \div 2

\* timerReconfigHandleExpired
TimerReconfigCallback ==
    LET failures == timerReconfigFailures + 1
        threw == reconfigRequest # NoParam /\ SendThrows(state, remotePort)
    IN  /\ timerReconfigHandle = "armed"
        /\ timerReconfigFailures' = failures
        /\ rto' = BackOff(rto)
        /\ UNCHANGED sackVars
        /\ IF failures > SCTP_MAX_ASSOCIATION_RETRANS
           THEN /\ SetStateClosed
                /\ timerReconfigHandle' = "none"
                /\ Sent(<< >>)
           ELSE /\ Sent(IF reconfigRequest # NoParam
                        THEN SendChunk(state, remotePort, remoteVerificationTag,
                                       ReconfigChunk(reconfigRequest))
                        ELSE << >>)
                /\ timerReconfigHandle' =
                      IF reconfigRequest # NoParam /\ ~threw THEN "armed" ELSE "stale"
                /\ sctpEvents' = << >> /\ received' = << >>
                /\ UNCHANGED << associationState, state, timer1Handle, timer1Chunk,
                                timer2Handle, timer2Chunk >>
        /\ UNCHANGED << started, isServer, remotePort, remoteVerificationTag,
                        tsnVars, streamVars, reconfigVars, timer1Failures,
                        timer2Failures, t1Deferred, t2Deferred >>
        /\ Step("timerReconfigExpired", NoChunk,
                IF failures <= SCTP_MAX_ASSOCIATION_RETRANS /\ threw
                THEN "invalid remote port" ELSE "ok")
        /\ Coupled

\* the expiries of T-Reconfig that the larger specifications follow
TimerReconfigExpired == rto <= RtoCap /\ TimerReconfigCallback

-----------------------------------------------------------------------------
(* Peer connection: session descriptions *)

SdpTypes == {"offer", "answer"}
MediaKinds == {"application"}

\* the m= lines of a description, by kind
KindSeqs == UNION {[1..n -> MediaKinds] : n \in 0..MaxMedia}

\* the attributes SessionDescription.parse reads for every media section:
\* ice-ufrag and ice-pwd present, a=sctp-port, a=setup, a=ice-lite
Attrs ==
    {[ice |-> TRUE, sctpPort |-> 5000, role |-> "auto", iceLite |-> FALSE],
     [ice |-> FALSE, sctpPort |-> 5000, role |-> "server", iceLite |-> FALSE],
     [ice |-> TRUE, sctpPort |-> NoPort, role |-> "none", iceLite |-> FALSE]}

\* a description without media sections carries none of them
NoAttrs == [ice |-> FALSE, sctpPort |-> NoPort, role |-> "none", iceLite |-> FALSE]

\* the parsed argument of setLocalDescription / setRemoteDescription
Sdps ==
    {[type |-> t, kinds |-> ka[1], ice |-> ka[2].ice, sctpPort |-> ka[2].sctpPort,
      role |-> ka[2].role, iceLite |-> ka[2].iceLite,
      muxId |-> IF Len(ka[1]) = 0 THEN Undefined ELSE AllocatedMid] :
        t \in SdpTypes,
        ka \in {x \in KindSeqs \X (Attrs \cup {NoAttrs}) :
                   (Len(x[1]) = 0) <=> (x[2] = NoAttrs)}}

\* what the peer connection keeps of a description
Desc(d) == [type |-> d.type, kinds |-> d.kinds, iceLite |-> d.iceLite]

\* the getters _localDescription and _remoteDescription
LocalDescription ==
    IF pendingLocalDescription # NoDesc THEN pendingLocalDescription
    ELSE currentLocalDescription

RemoteDescription ==
    IF pendingRemoteDescription # NoDesc THEN pendingRemoteDescription
    ELSE currentRemoteDescription

\* a comparison that forgets the media sections
MediaIndex_Empty(kinds) == << >>

\* description.media.map((v, i) => [v.kind, i])
MediaIndex(kinds) == [i \in 1..Len(kinds) |-> << kinds[i], i - 1 >>]

\* a table that lets a local offer through while a remote offer is pending
AllowedStates_Glare(type, isLocal) ==
    IF isLocal
    THEN IF type = "offer" THEN {"stable", "have-local-offer", "have-remote-offer"}
         ELSE {"have-remote-offer", "have-local-pranswer"}
    ELSE IF type = "offer" THEN {"stable", "have-remote-offer"}
         ELSE {"have-local-offer", "have-remote-pranswer"}

\* the signaling states validateDescription accepts
AllowedStates(type, isLocal) ==
    IF isLocal
    THEN IF type = "offer" THEN {"stable", "have-local-offer"}
         ELSE {"have-remote-offer", "have-local-pranswer"}
    ELSE IF type = "offer" THEN {"stable", "have-remote-offer"}
         ELSE {"have-local-offer", "have-remote-pranswer"}

\* a validation without the check of the signaling state
ValidateDescription_AnyState(d, isLocal) ==
    LET offer == IF isLocal THEN RemoteDescription ELSE LocalDescription
    IN  IF Len(d.kinds) > 0 /\ ~d.ice
        THEN "ICE username fragment or password is missing"
        ELSE IF d.type # "answer" THEN "ok"
        ELSE IF offer = NoDesc THEN "Error"
        ELSE IF MediaIndex(offer.kinds) # MediaIndex(d.kinds)
             THEN "Media sections in answer do not match offer"
        ELSE "ok"

\* validateDescription: "ok" or the message of the Error it throws
ValidateDescription(d, isLocal) ==
    LET offer == IF isLocal THEN RemoteDescription ELSE LocalDescription
    IN  IF signalingState \notin AllowedStates(d.type, isLocal)
        THEN "Cannot handle " \o d.type \o " in signaling state"
        ELSE IF Len(d.kinds) > 0 /\ ~d.ice
             THEN "ICE username fragment or password is missing"
        ELSE IF d.type # "answer" THEN "ok"
        ELSE IF offer = NoDesc THEN "Error"
        ELSE IF MediaIndex(offer.kinds) # MediaIndex(d.kinds)
             THEN "Media sections in answer do not match offer"
        ELSE "ok"

\* needNegotiation: the flag it leaves and whether it schedules the event
NeedsLater(needed, signaling) == needed \/ signaling # "stable"

\* setSignalingState / setConnectionState notify on every call
SignalingEvent == << "signalingstatechange" >>

ConnectionEvent == << "connectionstatechange" >>

\* the association does nothing during a step of the peer connection
SctpIdle == NoEffect

\* the state of the peer connection apart from what a call returns or emits
pcButMid ==
    << signalingState, connectionState, isClosed,
       pendingLocalDescription, currentLocalDescription,
       pendingRemoteDescription, currentRemoteDescription,
       sctpTransport, sctpRemotePort, transportEstablished,
       iceControlling, remoteIsLite, dtlsRole, dtlsState,
       negotiationneeded, shouldNegotiationneeded, negotiationTick,
       localTail, remoteTail, connects, iceVars, sdpVars, candVars >>

pcState == << pcButMid, sctpMid >>

\* the application awaits setLocalDescription and setRemoteDescription: it
\* makes no other asynchronous call while one of them is pending
Awaited == localTail = NoDesc /\ ~remoteTail

\* a call that throws before it changed anything
Rejected(op, message) ==
    /\ UNCHANGED pcState
    /\ retDesc' = NoDesc
    /\ events' = << >>
    /\ lastOp' = op
    /\ ret' = message

\* connect() up to its first await, called for an answer
\* connect() calls that the model lets overlap
MaxConnects == 2

ConnectStarts(d) == d.type = "answer" /\ ~transportEstablished

\* the application renegotiates once the transports are up: it applies no
\* answer that starts a connect() while an earlier connect() is in flight
OneConnect(d) == ConnectStarts(d) => connects = << >>

Connect(d, hasSctp) ==
    /\ connectionState' = IF ConnectStarts(d) THEN "connecting" ELSE connectionState
    /\ connects' = IF ConnectStarts(d)
                   THEN Append(connects, IF hasSctp THEN "ice" ELSE "end")
                   ELSE connects

-----------------------------------------------------------------------------
(* Peer connection: the public methods *)

\* createOffer: buildOfferSdp adds the application section of sctpTransport
CreateOffer ==
    /\ Awaited
    /\ retDesc' = [type |-> "offer",
                   kinds |-> IF sctpTransport THEN << "application" >> ELSE << >>,
                   iceLite |-> FALSE]
    /\ sctpMid' = IF sctpTransport /\ sctpMid = Undefined THEN AllocatedMid
                  ELSE sctpMid
    /\ UNCHANGED pcButMid
    /\ events' = << >>
    /\ lastOp' = "createOffer"
    /\ ret' = "ok"
    /\ SctpIdle

\* buildAnswer: "ok" or the message of the Error it throws
BuildAnswerError ==
    IF isClosed THEN "RTCPeerConnection is closed"
    ELSE IF signalingState \notin {"have-remote-offer", "have-local-pranswer"}
         THEN "createAnswer failed"
    ELSE IF RemoteDescription = NoDesc THEN "wrong state"
    ELSE "ok"

\* the media sections buildAnswer puts into the answer
AnswerKinds == << >>

CreateAnswer ==
    /\ Awaited
    /\ IF BuildAnswerError # "ok"
       THEN Rejected("createAnswer", BuildAnswerError)
       ELSE /\ retDesc' = [type |-> "answer", kinds |-> AnswerKinds,
                                iceLite |-> FALSE]
            /\ UNCHANGED pcState
            /\ events' = << >>
            /\ lastOp' = "createAnswer"
            /\ ret' = "ok"
    /\ SctpIdle

\* updateIceConnectionState with one ICE transport in state st
IceAggregate(cs, st) ==
    IF cs = "closed" THEN "closed"
    ELSE IF st = "failed" THEN "failed"
    ELSE IF st = "disconnected" THEN "disconnected"
    ELSE IF st \in {"new", "closed"} THEN "new"
    ELSE IF st = "checking" THEN "checking"
    ELSE IF st = "completed" THEN "completed"
    ELSE "connected"

IceEvent == << "iceconnectionstatechange" >>

\* createDataChannel(label, options): options with both limits throw; the
\* first channel creates the transport and asks for negotiation
CreateDataChannel(both) ==
    /\ IF both THEN Rejected("createDataChannel", "can not select both")
       ELSE /\ sctpTransport' = TRUE
            /\ shouldNegotiationneeded' =
                  IF sctpTransport THEN shouldNegotiationneeded
                  ELSE NeedsLater(negotiationneeded, signalingState)
            /\ negotiationTick' =
                  IF sctpTransport THEN negotiationTick
                  ELSE (negotiationTick \/ ~NeedsLater(negotiationneeded, signalingState))
            /\ sctpMid' = IF sctpTransport THEN sctpMid ELSE Undefined
            /\ UNCHANGED << sdpVars, candVars, iceState, signalingState,
                            connectionState, isClosed,
                            pendingLocalDescription, currentLocalDescription,
                            pendingRemoteDescription, currentRemoteDescription,
                            sctpRemotePort, transportEstablished,
                            iceControlling, remoteIsLite, dtlsRole, dtlsState,
                            negotiationneeded, localTail, remoteTail, connects >>
            /\ iceConnectionState' =
                  IF sctpTransport THEN iceConnectionState
                  ELSE IceAggregate(connectionState, iceState)
            /\ retDesc' = NoDesc
            /\ events' = IF iceConnectionState' # iceConnectionState
                         THEN IceEvent ELSE << >>
            /\ lastOp' = "createDataChannel"
            /\ ret' = "ok"
    /\ SctpIdle

\* the callback needNegotiation hands to setImmediate
NegotiationNeeded ==
    /\ negotiationTick
    /\ negotiationTick' = FALSE
    /\ negotiationneeded' = TRUE
    /\ events' = << "negotiationneeded" >>
    /\ UNCHANGED << sdpVars, candVars, sctpMid, iceVars, signalingState, connectionState, isClosed,
                    pendingLocalDescription, currentLocalDescription,
                    pendingRemoteDescription, currentRemoteDescription,
                    sctpTransport, sctpRemotePort, transportEstablished,
                    iceControlling, remoteIsLite, dtlsRole, dtlsState,
                    shouldNegotiationneeded, localTail, remoteTail, connects >>
    /\ retDesc' = NoDesc
    /\ lastOp' = "negotiationneeded"
    /\ ret' = "ok"
    /\ SctpIdle

\* addIceCandidate hands the candidate to the ICE transport, if there is one
AddIceCandidate ==
    /\ Awaited
    /\ UNCHANGED pcState
    /\ retDesc' = NoDesc
    /\ events' = << >>
    /\ lastOp' = "addIceCandidate"
    /\ ret' = "ok"
    /\ SctpIdle

\* setLocalDescription up to "await ... gather()"
SetLocalDescription(d) ==
    LET err == ValidateDescription(d, TRUE)
        offer == d.type = "offer"
        role == IF Len(d.kinds) > 0 THEN d.role ELSE "none"
    IN  /\ Awaited
        /\ IF err # "ok" THEN Rejected("setLocalDescription", err)
           ELSE /\ OneConnect(d)
                /\ signalingState' = IF offer THEN "have-local-offer" ELSE "stable"
                /\ iceControlling' =
                      IF ~sctpTransport THEN iceControlling
                      ELSE IF offer \/ remoteIsLite THEN "true" ELSE "false"
                /\ dtlsRole' = IF sctpTransport /\ ~offer /\ role # "none" THEN role
                               ELSE dtlsRole
                /\ currentLocalDescription' =
                      IF offer THEN currentLocalDescription ELSE Desc(d)
                /\ pendingLocalDescription' = IF offer THEN Desc(d) ELSE NoDesc
                /\ Connect(d, sctpTransport)
                /\ localTail' = Desc(d)
                /\ events' = SignalingEvent \o
                             (IF ConnectStarts(d) THEN ConnectionEvent ELSE << >>)
                /\ UNCHANGED << sdpVars, candVars, sctpMid, iceVars, isClosed, pendingRemoteDescription,
                                currentRemoteDescription, sctpTransport,
                                sctpRemotePort, transportEstablished, remoteIsLite,
                                dtlsState, negotiationneeded,
                                shouldNegotiationneeded, negotiationTick,
                                remoteTail >>
                /\ retDesc' = NoDesc
                /\ lastOp' = "setLocalDescription"
                /\ ret' = "ok"
        /\ SctpIdle

\* setLocalDescription after gather(): setLocal once more, needNegotiation
LocalGathered ==
    LET later == NeedsLater(negotiationneeded, signalingState)
    IN  /\ localTail # NoDesc
        /\ localTail' = NoDesc
        /\ currentLocalDescription' =
              IF localTail.type = "answer" THEN localTail ELSE currentLocalDescription
        /\ pendingLocalDescription' =
              IF localTail.type = "answer" THEN NoDesc ELSE localTail
        /\ shouldNegotiationneeded' = (shouldNegotiationneeded /\ later)
        /\ negotiationTick' = (negotiationTick \/ (shouldNegotiationneeded /\ ~later))
        /\ UNCHANGED << sdpVars, candVars, sctpMid, iceVars, signalingState, connectionState, isClosed,
                        pendingRemoteDescription, currentRemoteDescription,
                        sctpTransport, sctpRemotePort,
                        transportEstablished, iceControlling, remoteIsLite,
                        dtlsRole, dtlsState, negotiationneeded, remoteTail,
                        connects >>
        /\ retDesc' = NoDesc
        /\ events' = << >>
        /\ lastOp' = "setLocalDescription gathered"
        /\ ret' = "ok"
        /\ SctpIdle

\* what the media loop of setRemoteDescription has set so far
Transports ==
    [sctpTransport |-> sctpTransport, mid |-> sctpMid,
     sctpRemotePort |-> sctpRemotePort, remotePort |-> remotePort,
     iceControlling |-> iceControlling, remoteIsLite |-> remoteIsLite,
     dtlsRole |-> dtlsRole, err |-> "ok"]

\* one round of remoteSdp.media.map: the section must be the application
\* section, setRemoteSCTP needs its port, then the ICE and DTLS parameters
ApplyMedia(d, kind, t) ==
    LET created == [t EXCEPT !.sctpTransport = TRUE,
                             !.mid = IF t.sctpTransport THEN @ ELSE d.muxId,
                             !.sctpRemotePort = d.sctpPort]
        ported == [created EXCEPT !.remotePort = d.sctpPort,
                                  !.mid = IF @ \in {Undefined, ""} THEN d.muxId
                                          ELSE @]
        params == IF d.role = "none" THEN ported
                  ELSE [ported EXCEPT !.remoteIsLite = d.iceLite,
                                      !.iceControlling = IF d.iceLite THEN "true" ELSE @]
    IN  IF kind # "application" THEN [t EXCEPT !.err = "invalid media kind"]
        ELSE IF d.sctpPort = NoPort
             THEN [created EXCEPT !.err = "sctpRemotePort not exist"]
        ELSE IF d.type = "answer" /\ d.role # "none"
             THEN [params EXCEPT !.dtlsRole = IF d.role = "client" THEN "server"
                                              ELSE "client"]
        ELSE params

RECURSIVE ApplyAll(_, _, _)
ApplyAll(d, i, t) ==
    IF i > Len(d.kinds) \/ t.err # "ok" THEN t
    ELSE ApplyAll(d, i + 1, ApplyMedia(d, d.kinds[i], t))

\* setRemoteDescription up to "await ... gather()"; overlapping says whether
\* the application may apply an answer while an earlier connect() is in flight
ApplyRemoteDescription(d, overlapping) ==
    LET err == ValidateDescription(d, FALSE)
        offer == d.type = "offer"
        t == ApplyAll(d, 1, Transports)
        applied == t.err = "ok"
    IN  /\ Awaited
        /\ IF err # "ok"
           THEN Rejected("setRemoteDescription", err) /\ SctpIdle
           ELSE /\ applied =>
                      IF overlapping
                      THEN ConnectStarts(d) => Len(connects) < MaxConnects
                      ELSE OneConnect(d)
                /\ currentRemoteDescription' =
                      IF offer THEN currentRemoteDescription ELSE Desc(d)
                /\ pendingRemoteDescription' = IF offer THEN Desc(d) ELSE NoDesc
                /\ sctpTransport' = t.sctpTransport
                /\ sctpRemotePort' = t.sctpRemotePort
                /\ sctpMid' = t.mid
                /\ iceControlling' = t.iceControlling
                /\ remoteIsLite' = t.remoteIsLite
                /\ dtlsRole' = t.dtlsRole
                /\ remotePort' = t.remotePort
                /\ UNCHANGED << associationState, started, state, isServer,
                                remoteVerificationTag, tsnVars, streamVars,
                                reconfigVars, rto, sackVars, timerVars >>
                /\ Sent(<< >>)
                /\ sctpEvents' = << >> /\ received' = << >>
                /\ IF applied
                   THEN /\ signalingState' = IF offer THEN "have-remote-offer"
                                             ELSE "stable"
                        /\ Connect(d, t.sctpTransport)
                        /\ remoteTail' = TRUE
                        /\ events' = SignalingEvent \o
                              (IF ConnectStarts(d) THEN ConnectionEvent ELSE << >>)
                   ELSE /\ UNCHANGED << signalingState, connectionState, connects,
                                        remoteTail >>
                        /\ events' = << >>
                /\ UNCHANGED << sdpVars, candVars, iceVars, isClosed,
                                pendingLocalDescription,
                                currentLocalDescription, transportEstablished,
                                dtlsState, negotiationneeded,
                                shouldNegotiationneeded, negotiationTick,
                                localTail >>
                /\ retDesc' = NoDesc
                /\ lastOp' = "setRemoteDescription"
                /\ ret' = t.err

SetRemoteDescription(d) == ApplyRemoteDescription(d, FALSE)

\* setRemoteDescription called while connect() may still be awaiting a transport
SetRemoteDescriptionDuringConnect(d) == ApplyRemoteDescription(d, TRUE)

\* the candidates the gatherer reports: a fresh object each time, without mid
Foundations == {"1", "2"}

GatheredCandidates ==
    {[foundation |-> f, sdpMid |-> Undefined] : f \in Foundations}

CandidateEvent == << "icecandidate" >>

\* an onIceCandidate that notifies every candidate it is handed
OnIceCandidate_Resend(candidate) ==
    LET c == [foundation |-> "candidate:" \o candidate.foundation,
              sdpMid |-> IF sctpTransport THEN sctpMid ELSE candidate.sdpMid]
    IN  /\ sctpTransport
        /\ IF LocalDescription = NoDesc
           THEN /\ UNCHANGED candVars
                /\ events' = << >>
                /\ ret' = "dropped"
           ELSE /\ candidatesSent' = candidatesSent
                /\ icecandidate' = c
                /\ notified' = notified \cup {<< c.foundation, c.sdpMid >>}
                /\ events' = CandidateEvent
                /\ ret' = "notified"
        /\ UNCHANGED << sdpVars, sctpMid, iceVars, signalingState, connectionState,
                        isClosed, pendingLocalDescription, currentLocalDescription,
                        pendingRemoteDescription, currentRemoteDescription,
                        sctpTransport, sctpRemotePort, transportEstablished,
                        iceControlling, remoteIsLite, dtlsRole, dtlsState,
                        negotiationneeded, shouldNegotiationneeded,
                        negotiationTick, localTail, remoteTail, connects >>
        /\ retDesc' = NoDesc
        /\ lastOp' = "icecandidate"
        /\ SctpIdle

\* iceGather.onIceCandidate of the transport createTransport made: nothing
\* without a local description; the candidate gets the mid of the SCTP
\* transport and the prefix of its foundation; with a mid, a key sent before
\* is not sent again
OnIceCandidate(candidate) ==
    LET c == [foundation |-> "candidate:" \o candidate.foundation,
              sdpMid |-> IF sctpTransport THEN sctpMid ELSE candidate.sdpMid]
        keyed == c.sdpMid \notin {Undefined, ""}
        candidateKey == c.foundation \o ":" \o c.sdpMid
    IN  /\ sctpTransport
        /\ IF LocalDescription = NoDesc \/ (keyed /\ candidateKey \in candidatesSent)
           THEN /\ UNCHANGED candVars
                /\ events' = << >>
                /\ ret' = "dropped"
           ELSE /\ candidatesSent' = IF keyed THEN candidatesSent \cup {candidateKey}
                                     ELSE candidatesSent
                /\ icecandidate' = c
                /\ notified' = notified \cup {<< c.foundation, c.sdpMid >>}
                /\ events' = CandidateEvent
                /\ ret' = "notified"
        /\ UNCHANGED << sdpVars, sctpMid, iceVars, signalingState, connectionState,
                        isClosed, pendingLocalDescription, currentLocalDescription,
                        pendingRemoteDescription, currentRemoteDescription,
                        sctpTransport, sctpRemotePort, transportEstablished,
                        iceControlling, remoteIsLite, dtlsRole, dtlsState,
                        negotiationneeded, shouldNegotiationneeded,
                        negotiationTick, localTail, remoteTail, connects >>
        /\ retDesc' = NoDesc
        /\ lastOp' = "icecandidate"
        /\ SctpIdle

\* setRemoteDescription after gather(): negotiationneeded cleared
RemoteGathered ==
    LET later == signalingState # "stable"
    IN  /\ remoteTail
        /\ remoteTail' = FALSE
        /\ negotiationneeded' = FALSE
        /\ shouldNegotiationneeded' = (shouldNegotiationneeded /\ later)
        /\ negotiationTick' = (negotiationTick \/ (shouldNegotiationneeded /\ ~later))
        /\ UNCHANGED << sdpVars, candVars, sctpMid, iceVars, signalingState, connectionState, isClosed,
                        pendingLocalDescription, currentLocalDescription,
                        pendingRemoteDescription, currentRemoteDescription,
                        sctpTransport, sctpRemotePort,
                        transportEstablished, iceControlling, remoteIsLite,
                        dtlsRole, dtlsState, localTail, connects >>
        /\ retDesc' = NoDesc
        /\ events' = << >>
        /\ lastOp' = "setRemoteDescription gathered"
        /\ ret' = "ok"
        /\ SctpIdle

-----------------------------------------------------------------------------
(* Peer connection: connect() after its first await, and close() *)

Remove(cs, i) == SubSeq(cs, 1, i - 1) \o SubSeq(cs, i + 1, Len(cs))

\* iceTransport.start() resolved
ConnectIceStarted(i) ==
    /\ i \in 1..Len(connects)
    /\ connects[i] = "ice"
    /\ connects' = [connects EXCEPT ![i] = "dtls"]
    /\ UNCHANGED << sdpVars, candVars, sctpMid, iceVars, signalingState, connectionState, isClosed,
                    pendingLocalDescription, currentLocalDescription,
                    pendingRemoteDescription, currentRemoteDescription,
                    sctpTransport, sctpRemotePort, transportEstablished,
                    iceControlling, remoteIsLite, dtlsRole, dtlsState,
                    negotiationneeded, shouldNegotiationneeded, negotiationTick,
                    localTail, remoteTail >>
    /\ retDesc' = NoDesc
    /\ events' = << >>
    /\ lastOp' = "connect ice"
    /\ ret' = "ok"
    /\ SctpIdle

\* iceTransport.start() or dtlsTransport.start() rejected: the catch of the
\* caller sets the connection state to failed
ConnectFailed(i) ==
    /\ i \in 1..Len(connects)
    /\ connects[i] \in {"ice", "dtls"}
    /\ connects' = Remove(connects, i)
    /\ connectionState' = "failed"
    /\ UNCHANGED << sdpVars, candVars, sctpMid, iceVars, signalingState, isClosed,
                    pendingLocalDescription, currentLocalDescription,
                    pendingRemoteDescription, currentRemoteDescription,
                    sctpTransport, sctpRemotePort, transportEstablished,
                    iceControlling, remoteIsLite, dtlsRole, dtlsState,
                    negotiationneeded, shouldNegotiationneeded, negotiationTick,
                    localTail, remoteTail >>
    /\ retDesc' = NoDesc
    /\ events' = ConnectionEvent
    /\ lastOp' = "connect failed"
    /\ ret' = "ok"
    /\ SctpIdle

\* dtlsTransport.start() resolved: with a remote port the SCTP transport is
\* started, as client or as server, and connect waits for stateChanged.connected
ConnectDtlsStarted(i, server) ==
    LET starts == sctpTransport /\ sctpRemotePort # NoPort
    IN  /\ i \in 1..Len(connects)
        /\ connects[i] = "dtls"
        /\ dtlsState # "closed"
        /\ dtlsState' = "connected"
        /\ connects' = [connects EXCEPT ![i] = IF starts THEN "sctp" ELSE "end"]
        /\ IF starts THEN StartEffect(sctpRemotePort, server) ELSE SctpIdle
        /\ UNCHANGED << sdpVars, candVars, sctpMid, iceVars, signalingState, connectionState, isClosed,
                        pendingLocalDescription, currentLocalDescription,
                        pendingRemoteDescription, currentRemoteDescription,
                        sctpTransport, sctpRemotePort,
                        transportEstablished, iceControlling, remoteIsLite,
                        dtlsRole, negotiationneeded, shouldNegotiationneeded,
                        negotiationTick, localTail, remoteTail >>
        /\ retDesc' = NoDesc
        /\ events' = << >>
        /\ lastOp' = "connect dtls"
        /\ ret' = "ok"

\* the end of connect(): every transport is up
ConnectDone(i) ==
    /\ i \in 1..Len(connects)
    /\ connects[i] \in {"end", "done"}
    /\ connects' = Remove(connects, i)
    /\ transportEstablished' = TRUE
    /\ connectionState' = "connected"
    /\ UNCHANGED << sdpVars, candVars, sctpMid, iceVars, signalingState, isClosed,
                    pendingLocalDescription, currentLocalDescription,
                    pendingRemoteDescription, currentRemoteDescription,
                    sctpTransport, sctpRemotePort,
                    iceControlling, remoteIsLite, dtlsRole, dtlsState,
                    negotiationneeded, shouldNegotiationneeded, negotiationTick,
                    localTail, remoteTail >>
    /\ retDesc' = NoDesc
    /\ events' = ConnectionEvent
    /\ lastOp' = "connect done"
    /\ ret' = "ok"
    /\ SctpIdle

\* the states the ICE transport reports
IceStates == {"checking", "connected", "disconnected", "failed"}

\* iceTransport.onStateChange: updateIceConnectionState and, when the
\* aggregated state changed, the subscriber of iceConnectionStateChange:
\* 'disconnected' sets the connection state, 'closed' calls close(), which
\* returns at once because only a closed peer connection aggregates to
\* 'closed'
IceStateChange(st) ==
    LET agg == IceAggregate(connectionState, st)
        changed == agg # iceConnectionState
        disconnects == changed /\ agg = "disconnected"
    IN  /\ sctpTransport
        /\ st # iceState
        /\ iceState' = st
        /\ iceConnectionState' = agg
        /\ connectionState' = IF disconnects THEN "disconnected" ELSE connectionState
        /\ events' = (IF changed THEN IceEvent ELSE << >>)
                     \o (IF disconnects THEN ConnectionEvent ELSE << >>)
        /\ UNCHANGED << sdpVars, candVars, sctpMid, signalingState, isClosed,
                        pendingLocalDescription, currentLocalDescription,
                        pendingRemoteDescription, currentRemoteDescription,
                        sctpTransport, sctpRemotePort, transportEstablished,
                        iceControlling, remoteIsLite, dtlsRole, dtlsState,
                        negotiationneeded, shouldNegotiationneeded, negotiationTick,
                        localTail, remoteTail, connects >>
        /\ retDesc' = NoDesc
        /\ lastOp' = "iceStateChange"
        /\ ret' = "ok"
        /\ SctpIdle

\* a close() without the isClosed guard
CloseReturns_Never == FALSE

\* close() returns at once on a closed peer connection
CloseReturns == isClosed

\* close(): closed states with their notifications, then the transports stop
Close ==
    /\ IF CloseReturns
       THEN /\ UNCHANGED pcState
            /\ events' = << >>
            /\ ret' = "ok"
            /\ SctpIdle
       ELSE /\ isClosed' = TRUE
            /\ signalingState' = "closed"
            /\ connectionState' = "closed"
            /\ events' = SignalingEvent \o ConnectionEvent
            /\ IF sctpTransport THEN StopEffect ELSE SctpIdle
            /\ dtlsState' = IF sctpTransport /\ ~StopThrows THEN "closed"
                            ELSE dtlsState
            /\ connects' = OnSctpEvents(connects, sctpEvents')
            /\ ret' = IF sctpTransport /\ StopThrows THEN "invalid remote port"
                      ELSE "ok"
            /\ UNCHANGED << sdpVars, candVars, sctpMid, iceVars, pendingLocalDescription, currentLocalDescription,
                            pendingRemoteDescription, currentRemoteDescription,
                            sctpTransport, sctpRemotePort,
                            transportEstablished, iceControlling, remoteIsLite,
                            dtlsRole, negotiationneeded, shouldNegotiationneeded,
                            negotiationTick, localTail, remoteTail >>
    /\ retDesc' = NoDesc
    /\ lastOp' = "close"

-----------------------------------------------------------------------------
(* The text of a session description: SessionDescription.string and        *)
(* SessionDescription.parse.  A text is its line terminator and its lines;  *)
(* a line is its type letter, for an attribute its name and whether a ':'   *)
(* follows, and the rest of the line as the tokens a blank separates.       *)

UndefinedNumber == -1
NaN == -2

\* if (x) on a string and on a number
TruthyString(x) == x # Undefined /\ x # ""
TruthyNumber(n) == n > 0

\* `${x}` of a string
Template(x) == IF x = Undefined THEN "undefined" ELSE x

\* the numbers whose decimal texts occur
Numbers == {0, 1, 2, 9, 3478, 5000, 54321, 65536, 1694498815, 2130706431}

\* `${n}` and n.toString() of a number
Decimal(n) ==
    IF n = UndefinedNumber THEN "undefined"
    ELSE IF n = NaN THEN "NaN" ELSE ToString(n)

\* parseInt(s, 10)
ParseInt(s) ==
    IF \E n \in Numbers : ToString(n) = s
    THEN CHOOSE n \in Numbers : ToString(n) = s
    ELSE NaN

Line(k, v) == [k |-> k, attr |-> "", colon |-> FALSE, v |-> v]
Attribute(attr, v) == [k |-> "a", attr |-> attr, colon |-> TRUE, v |-> v]
Flag(attr) == [k |-> "a", attr |-> attr, colon |-> FALSE, v |-> << >>]
EmptyLine == [k |-> "", attr |-> "", colon |-> FALSE, v |-> << >>]

\* the i-th token of a split, undefined past the end
Token(v, i) == IF i <= Len(v) THEN v[i] ELSE Undefined

\* DTLS_ROLE_SETUP and DTLS_SETUP_ROLE
DTLS_ROLE_SETUP(role) ==
    CASE role = "auto" -> "actpass"
      [] role = "client" -> "active"
      [] role = "server" -> "passive"
      [] OTHER -> "undefined"

DTLS_SETUP_ROLE(setup) ==
    CASE setup = "actpass" -> "auto"
      [] setup = "active" -> "client"
      [] setup = "passive" -> "server"
      [] OTHER -> Undefined

\* isIPv4 of net
IPv4Addresses == {"0.0.0.0", "192.0.2.1", "198.51.100.7"}
isIPv4(addr) == addr \in IPv4Addresses

ipAddressToSdp(addr) == << "IN", IF isIPv4(addr) THEN "IP4" ELSE "IP6", addr >>

\* ipAddressFromSdp: the address, or undefined where it throws
ipAddressFromSdp(v) ==
    IF Len(v) = 3 /\ v[1] = "IN" /\ v[2] \in {"IP4", "IP6"} /\ v[3] # ""
    THEN v[3] ELSE Undefined

\* GroupDescription.str
GroupStr(g) == << g.semantic >> \o (IF g.items = << >> THEN << "" >> ELSE g.items)

\* parseGroup(dest, value)
parseGroup(dest, v) ==
    IF Len(v) > 0
    THEN Append(dest, [semantic |-> v[1], items |-> SubSeq(v, 2, Len(v))])
    ELSE dest

candidateToSdp(c) ==
    << c.foundation, Decimal(c.component), c.protocol, Decimal(c.priority),
       c.ip, Decimal(c.port), "typ", c.type >>
    \o (IF TruthyString(c.relatedAddress) THEN << "raddr", c.relatedAddress >> ELSE << >>)
    \o (IF TruthyNumber(c.relatedPort) THEN << "rport", Decimal(c.relatedPort) >> ELSE << >>)
    \o (IF TruthyString(c.tcpType) THEN << "tcptype", c.tcpType >> ELSE << >>)

\* the loop of candidateFromSdp over range(8, bits.length - 1, 2); i counts
\* from 0 as in the source
RECURSIVE CandidateExtensions(_, _, _)
CandidateExtensions(c, bits, i) ==
    IF i >= Len(bits) - 1 THEN c
    ELSE LET key == bits[i + 1]
             value == bits[i + 2]
         IN  CandidateExtensions(
                 CASE key = "raddr" -> [c EXCEPT !.relatedAddress = value]
                   [] key = "rport" -> [c EXCEPT !.relatedPort = ParseInt(value)]
                   [] key = "tcptype" -> [c EXCEPT !.tcpType = value]
                   [] OTHER -> c,
                 bits, i + 2)

\* candidateFromSdp, for bits.length >= 8
candidateFromSdp(bits) ==
    CandidateExtensions(
        [foundation |-> bits[1], component |-> ParseInt(bits[2]),
         protocol |-> bits[3], priority |-> ParseInt(bits[4]), ip |-> bits[5],
         port |-> ParseInt(bits[6]), type |-> bits[8],
         relatedAddress |-> Undefined, relatedPort |-> UndefinedNumber,
         tcpType |-> Undefined],
        bits, 8)

NoDtlsParams == [defined |-> FALSE, fingerprints |-> << >>, role |-> Undefined]

RECURSIVE CandidateLines(_)
CandidateLines(cs) ==
    IF cs = << >> THEN << >>
    ELSE << Attribute("candidate", candidateToSdp(Head(cs))) >> \o CandidateLines(Tail(cs))

RECURSIVE FingerprintLines(_)
FingerprintLines(fs) ==
    IF fs = << >> THEN << >>
    ELSE << Attribute("fingerprint", << Head(fs).algorithm, Head(fs).value >>) >>
         \o FingerprintLines(Tail(fs))

\* MediaDescription.toString: the lines of a media section
MediaLines(m) ==
    << Line("m", << m.kind, Decimal(m.port), m.profile >> \o m.fmt) >>
    \o (IF TruthyString(m.host) THEN << Line("c", ipAddressToSdp(m.host)) >> ELSE << >>)
    \o CandidateLines(m.iceCandidates)
    \o (IF m.iceCandidatesComplete THEN << Flag("end-of-candidates") >> ELSE << >>)
    \o (IF TruthyString(m.iceParams.usernameFragment)
        THEN << Attribute("ice-ufrag", << m.iceParams.usernameFragment >>) >> ELSE << >>)
    \o (IF TruthyString(m.iceParams.password)
        THEN << Attribute("ice-pwd", << m.iceParams.password >>) >> ELSE << >>)
    \o (IF m.iceParams.iceLite THEN << Flag("ice-lite") >> ELSE << >>)
    \o (IF TruthyString(m.iceOptions)
        THEN << Attribute("ice-options", << m.iceOptions >>) >> ELSE << >>)
    \o (IF m.dtlsParams.defined
        THEN FingerprintLines(m.dtlsParams.fingerprints)
             \o << Attribute("setup", << DTLS_ROLE_SETUP(m.dtlsParams.role) >>) >>
        ELSE << >>)
    \o (IF TruthyString(m.muxId) THEN << Attribute("mid", << m.muxId >>) >> ELSE << >>)
    \o (IF TruthyNumber(m.sctpPort)
        THEN << Attribute("sctp-port", << Decimal(m.sctpPort) >>) >> ELSE << >>)
    \o (IF m.sctpCapabilities # UndefinedNumber
        THEN << Attribute("max-message-size", << Decimal(m.sctpCapabilities) >>) >>
        ELSE << >>)

RECURSIVE GroupLinesOf(_, _)
GroupLinesOf(attr, gs) ==
    IF gs = << >> THEN << >>
    ELSE << Attribute(attr, GroupStr(Head(gs))) >> \o GroupLinesOf(attr, Tail(gs))

RECURSIVE AllMediaLines(_)
AllMediaLines(ms) ==
    IF ms = << >> THEN << >> ELSE MediaLines(Head(ms)) \o AllMediaLines(Tail(ms))

\* SessionDescription.string: every line ends in CRLF
String(s) ==
    [eol |-> "CRLF",
     lines |->
        << Line("v", << Decimal(s.version) >>), Line("o", << Template(s.origin) >>),
           Line("s", << s.name >>) >>
        \o (IF TruthyString(s.host) THEN << Line("c", ipAddressToSdp(s.host)) >> ELSE << >>)
        \o << Line("t", << s.time >>) >>
        \o GroupLinesOf("group", s.group)
        \o (IF s.extMapAllowMixed THEN << Flag("extmap-allow-mixed") >> ELSE << >>)
        \o GroupLinesOf("msid-semantic", s.msidSemantic)
        \o AllMediaLines(s.media)]

\* sdp.split(separator): the lines and the empty rest after the last
\* terminator, or the whole text where the separator does not occur
Unsplit == [k |-> "v", attr |-> "", colon |-> FALSE, v |-> << "whole text" >>]
Split(text, separator) ==
    IF text.eol = separator THEN Append(text.lines, EmptyLine) ELSE << Unsplit >>

\* a groupLines that splits at CRLF only
SplitLines_CrlfOnly(text) == Split(text, "CRLF")

\* the lines groupLines goes through
SplitLines(text) ==
    LET lines == Split(text, "CRLF")
    IN  IF Len(lines) = 1 THEN Split(text, "LF") ELSE lines

\* groupLines: the session lines and the lines of each media section
RECURSIVE GroupLinesFrom(_, _, _)
GroupLinesFrom(lines, session, media) ==
    IF lines = << >> THEN << session, media >>
    ELSE LET line == Head(lines)
         IN  IF line.k = "m"
             THEN GroupLinesFrom(Tail(lines), session, Append(media, << line >>))
             ELSE IF Len(media) > 0
             THEN GroupLinesFrom(Tail(lines), session,
                                 [media EXCEPT ![Len(media)] = Append(@, line)])
             ELSE GroupLinesFrom(Tail(lines), Append(session, line), media)

groupLines(text) == GroupLinesFrom(SplitLines(text), << >>, << >>)

\* parseAttr: whether the attribute has no value, or an empty one
NoValue(line) == ~line.colon \/ line.v = << "" >>

\* new SessionDescription(); error is the message of what parse threw
NewSession ==
    [version |-> 0, origin |-> Undefined, name |-> "-", time |-> "0 0",
     host |-> Undefined, group |-> << >>, extMapAllowMixed |-> TRUE,
     msidSemantic |-> << >>, media |-> << >>, dtlsRole |-> Undefined,
     iceOptions |-> Undefined, iceLite |-> FALSE, icePassword |-> Undefined,
     iceUsernameFragment |-> Undefined, dtlsFingerprints |-> << >>,
     error |-> ""]

\* parse: one session-level line
SessionLine(s, line) ==
    CASE line.k = "v" -> [s EXCEPT !.version = ParseInt(Token(line.v, 1))]
      [] line.k = "o" -> [s EXCEPT !.origin = Token(line.v, 1)]
      [] line.k = "s" -> [s EXCEPT !.name = Token(line.v, 1)]
      [] line.k = "c" ->
            IF ipAddressFromSdp(line.v) = Undefined
            THEN [s EXCEPT !.error = "exception"]
            ELSE [s EXCEPT !.host = ipAddressFromSdp(line.v)]
      [] line.k = "t" -> [s EXCEPT !.time = Token(line.v, 1)]
      [] line.k = "a" ->
            (CASE line.attr = "fingerprint" ->
                    [s EXCEPT !.dtlsFingerprints =
                        Append(@, [algorithm |-> Token(line.v, 1),
                                   value |-> Token(line.v, 2)])]
               [] line.attr = "ice-lite" -> [s EXCEPT !.iceLite = TRUE]
               [] line.attr = "ice-options" -> [s EXCEPT !.iceOptions = Token(line.v, 1)]
               [] line.attr = "ice-pwd" -> [s EXCEPT !.icePassword = Token(line.v, 1)]
               [] line.attr = "ice-ufrag" ->
                    [s EXCEPT !.iceUsernameFragment = Token(line.v, 1)]
               [] line.attr = "group" -> [s EXCEPT !.group = parseGroup(@, line.v)]
               [] line.attr = "msid-semantic" ->
                    [s EXCEPT !.msidSemantic = parseGroup(@, line.v)]
               [] line.attr = "setup" ->
                    [s EXCEPT !.dtlsRole = DTLS_SETUP_ROLE(Token(line.v, 1))]
               [] line.attr = "extmap-allow-mixed" -> [s EXCEPT !.extMapAllowMixed = TRUE]
               [] OTHER -> s)
      [] OTHER -> s

RECURSIVE SessionLines(_, _)
SessionLines(s, lines) ==
    IF lines = << >> \/ s.error # "" THEN s
    ELSE SessionLines(SessionLine(s, Head(lines)), Tail(lines))

\* the regular expression of the m= line
MediaProfiles == {"UDP/DTLS/SCTP", "DTLS/SCTP", "UDP/TLS/RTP/SAVPF"}
MLineMatches(line) ==
    /\ Len(line.v) >= 4
    /\ line.v[1] # ""
    /\ ParseInt(line.v[2]) # NaN
    /\ line.v[3] \in MediaProfiles

\* new MediaDescription(kind, port, profile, fmt) with the ICE and DTLS
\* parameters of the session
NewMedia(session, line) ==
    [kind |-> line.v[1], port |-> ParseInt(line.v[2]), profile |-> line.v[3],
     fmt |-> SubSeq(line.v, 4, Len(line.v)), host |-> Undefined,
     iceCandidates |-> << >>, iceCandidatesComplete |-> FALSE,
     iceParams |-> [iceLite |-> session.iceLite,
                    usernameFragment |-> session.iceUsernameFragment,
                    password |-> session.icePassword],
     iceOptions |-> session.iceOptions,
     dtlsParams |-> [defined |-> TRUE, fingerprints |-> session.dtlsFingerprints,
                     role |-> session.dtlsRole],
     muxId |-> Undefined, sctpPort |-> UndefinedNumber,
     sctpCapabilities |-> UndefinedNumber, error |-> ""]

\* parse: one line of a media section
MediaLine(m, line) ==
    CASE line.k = "c" ->
            IF ipAddressFromSdp(line.v) = Undefined
            THEN [m EXCEPT !.error = "exception"]
            ELSE [m EXCEPT !.host = ipAddressFromSdp(line.v)]
      [] line.k = "a" ->
            (CASE line.attr = "candidate" ->
                    IF NoValue(line) \/ Len(line.v) < 8
                    THEN [m EXCEPT !.error = "Error"]
                    ELSE [m EXCEPT !.iceCandidates = Append(@, candidateFromSdp(line.v))]
               [] line.attr = "end-of-candidates" ->
                    [m EXCEPT !.iceCandidatesComplete = TRUE]
               [] line.attr = "fingerprint" ->
                    IF NoValue(line)
                    THEN [m EXCEPT !.error = "Error"]
                    ELSE [m EXCEPT !.dtlsParams.fingerprints =
                              Append(@, [algorithm |-> Token(line.v, 1),
                                         value |-> Token(line.v, 2)])]
               [] line.attr = "ice-options" -> [m EXCEPT !.iceOptions = Token(line.v, 1)]
               [] line.attr = "ice-pwd" ->
                    [m EXCEPT !.iceParams.password = Token(line.v, 1)]
               [] line.attr = "ice-ufrag" ->
                    [m EXCEPT !.iceParams.usernameFragment = Token(line.v, 1)]
               [] line.attr = "ice-lite" -> [m EXCEPT !.iceParams.iceLite = TRUE]
               [] line.attr = "max-message-size" ->
                    [m EXCEPT !.sctpCapabilities = ParseInt(Token(line.v, 1))]
               [] line.attr = "mid" -> [m EXCEPT !.muxId = Token(line.v, 1)]
               [] line.attr = "setup" ->
                    [m EXCEPT !.dtlsParams.role = DTLS_SETUP_ROLE(Token(line.v, 1))]
               [] line.attr = "sctp-port" ->
                    IF NoValue(line)
                    THEN [m EXCEPT !.error = "Error"]
                    ELSE [m EXCEPT !.sctpPort = ParseInt(Token(line.v, 1))]
               [] OTHER -> m)
      [] OTHER -> m

RECURSIVE MediaLinesParsed(_, _)
MediaLinesParsed(m, lines) ==
    IF lines = << >> \/ m.error # "" THEN m
    ELSE MediaLinesParsed(MediaLine(m, Head(lines)), Tail(lines))

\* parse: one media section; a section without a=setup loses its DTLS
\* parameters. (With one section the search of the BUNDLE group for ICE
\* parameters finds the section itself and changes nothing.)
MediaGroup(session, mediaLines) ==
    IF ~MLineMatches(Head(mediaLines))
    THEN [NewMedia(session, Line("m", << "", "0", "", "" >>)) EXCEPT
              !.error = "m line not found"]
    ELSE LET m == MediaLinesParsed(NewMedia(session, Head(mediaLines)),
                                   Tail(mediaLines))
         IN  IF m.dtlsParams.role = Undefined
             THEN [m EXCEPT !.dtlsParams = NoDtlsParams]
             ELSE m

RECURSIVE MediaGroups(_, _)
MediaGroups(s, groups) ==
    IF groups = << >> \/ s.error # "" THEN s
    ELSE LET m == MediaGroup(s, Head(groups))
         IN  MediaGroups(IF m.error # ""
                         THEN [s EXCEPT !.error = m.error]
                         ELSE [s EXCEPT !.media = Append(@, m)],
                         Tail(groups))

\* SessionDescription.parse(sdp); what it threw is all that is left of a
\* parse that threw
Parse(text) ==
    LET grouped == groupLines(text)
        s == MediaGroups(SessionLines(NewSession, grouped[1]), grouped[2])
    IN  IF s.error # "" THEN [NewSession EXCEPT !.error = s.error] ELSE s

\* ---- the descriptions buildOfferSdp makes

MaxCandidates == 2

\* a host candidate, a server-reflexive one and a TCP one
Candidates ==
    {[foundation |-> "f1", component |-> 1, protocol |-> "udp",
      priority |-> 2130706431, ip |-> "192.0.2.1", port |-> 54321,
      type |-> "host", relatedAddress |-> Undefined,
      relatedPort |-> UndefinedNumber, tcpType |-> Undefined],
     [foundation |-> "f2", component |-> 1, protocol |-> "udp",
      priority |-> 1694498815, ip |-> "198.51.100.7", port |-> 3478,
      type |-> "srflx", relatedAddress |-> "192.0.2.1",
      relatedPort |-> 54321, tcpType |-> Undefined],
     [foundation |-> "f3", component |-> 1, protocol |-> "tcp",
      priority |-> 2130706431, ip |-> "2001:db8::1", port |-> 9,
      type |-> "host", relatedAddress |-> Undefined,
      relatedPort |-> UndefinedNumber, tcpType |-> "passive"]}

CandidateLists ==
    UNION {[1..n -> Candidates] : n \in 0..MaxCandidates}

Fingerprint == [algorithm |-> "sha-256", value |-> "AB:CD:EF"]

\* dtlsTransport.localParameters, and a section without DTLS parameters
LocalDtlsParameters ==
    {NoDtlsParams}
    \cup {[defined |-> TRUE, fingerprints |-> fs, role |-> r] :
            fs \in {<< >>, << Fingerprint >>}, r \in {"auto", "client", "server"}}

DISCARD_HOST == "0.0.0.0"
DISCARD_PORT == 9

\* createMediaDescriptionForSctp and addTransportDescription
SctpMedia ==
    {[kind |-> "application", port |-> DISCARD_PORT, profile |-> "UDP/DTLS/SCTP",
      fmt |-> << "webrtc-datachannel" >>, host |-> DISCARD_HOST,
      iceCandidates |-> cs, iceCandidatesComplete |-> complete,
      iceParams |-> [iceLite |-> FALSE, usernameFragment |-> "ab12",
                     password |-> "0123456789abcdefghij"],
      iceOptions |-> "trickle", dtlsParams |-> dtls, muxId |-> mid,
      sctpPort |-> port, sctpCapabilities |-> size, error |-> ""] :
        cs \in CandidateLists, complete \in BOOLEAN, dtls \in LocalDtlsParameters,
        mid \in {Undefined, "0dc"}, port \in {UndefinedNumber, 5000},
        size \in {UndefinedNumber, 65536}}

\* buildOfferSdp and addSDPHeader: an offer with one application section
buildOfferSdp(m) ==
    [NewSession EXCEPT
        !.origin = "- 12345678 0 IN IP4 0.0.0.0",
        !.msidSemantic = << [semantic |-> "WMS", items |-> << "*" >>] >>,
        !.media = << m >>,
        !.group = IF TruthyString(m.muxId)
                  THEN << [semantic |-> "BUNDLE", items |-> << m.muxId >>] >>
                  ELSE << >>]

Offers == {buildOfferSdp(m) : m \in SctpMedia}

NoText == [eol |-> "", lines |-> << >>]
NotParsed == [NewSession EXCEPT !.error = "not parsed"]

sdpDone == << pcVars, iceVars, candVars, sctpMid, sctpVars >>

\* createOffer: buildOfferSdp() and toJSON(), the text of the description
ToJSON(description) ==
    /\ sdpText = NoText
    /\ sdpDescription' = description
    /\ sdpText' = String(description)
    /\ sdpParsed' = NotParsed
    /\ lastOp' = "toJSON"
    /\ ret' = "ok"
    /\ UNCHANGED sdpDone

\* the text travels over a signalling channel that ends lines in LF
LfLineEnds ==
    /\ sdpText # NoText
    /\ sdpText.eol = "CRLF"
    /\ sdpText' = [sdpText EXCEPT !.eol = "LF"]
    /\ sdpParsed' = NotParsed
    /\ lastOp' = "LF"
    /\ ret' = "ok"
    /\ UNCHANGED << sdpDescription, sdpDone >>

\* setLocalDescription / setRemoteDescription: SessionDescription.parse
ParseSdp ==
    /\ sdpText # NoText
    /\ sdpParsed = NotParsed
    /\ sdpParsed' = Parse(sdpText)
    /\ lastOp' = "parse"
    /\ ret' = IF Parse(sdpText).error # "" THEN Parse(sdpText).error ELSE "ok"
    /\ UNCHANGED << sdpDescription, sdpText, sdpDone >>

-----------------------------------------------------------------------------
(* The state after construction *)

\* new SCTP(transport, port): the field initialisers
\* the field initialisers of SCTP; localTsn = random32()
InitAssociationAt(tsns) ==
    /\ associationState = "CLOSED"
    /\ started = FALSE
    /\ state = "new"
    /\ remotePort = NoPort
    /\ remoteVerificationTag = 0
    /\ lastReceivedTsn = NoTsn
    /\ sackMisOrdered = {}
    /\ sackDuplicates = << >>
    /\ sackNeeded = FALSE
    /\ reconfigResponseSeq = 0
    /\ localTsn \in tsns
    /\ reconfigRequestSeq = localTsn
    /\ inboundStreamsCount = 0
    /\ outboundStreamsCount = MAX_STREAMS
    /\ outboundStreamSeq = [sid \in Streams |-> 0]
    /\ reconfigRequest = NoParam
    /\ reconfigQueue = << >>
    /\ rto = SCTP_RTO_INITIAL
    /\ timer1Handle = FALSE /\ timer1Chunk = NoChunk /\ timer1Failures = 0
    /\ timer2Handle = FALSE /\ timer2Chunk = NoChunk /\ timer2Failures = 0
    /\ timerReconfigHandle = "none" /\ timerReconfigFailures = 0
    /\ t1Deferred = FALSE /\ t2Deferred = FALSE
    /\ tagRevealed = FALSE
    /\ lastDataTsn = NoTsn
    /\ out = << >>
    /\ sctpEvents = << >>
    /\ received = << >>

InitAssociation == InitAssociationAt(LocalTsns)

\* new RTCPeerConnection(config): the field initialisers
InitPeerConnection ==
    /\ signalingState = "stable"
    /\ connectionState = "new"
    /\ isClosed = FALSE
    /\ pendingLocalDescription = NoDesc
    /\ currentLocalDescription = NoDesc
    /\ pendingRemoteDescription = NoDesc
    /\ currentRemoteDescription = NoDesc
    /\ sctpTransport = FALSE
    /\ sctpRemotePort = NoPort
    /\ transportEstablished = FALSE
    /\ iceControlling = "default"
    /\ remoteIsLite = FALSE
    /\ dtlsRole = "auto"
    /\ negotiationneeded = FALSE
    /\ shouldNegotiationneeded = FALSE
    /\ negotiationTick = FALSE
    /\ localTail = NoDesc
    /\ remoteTail = FALSE
    /\ connects = << >>
    /\ retDesc = NoDesc
    /\ events = << >>
    /\ iceState = "new"
    /\ iceConnectionState = "new"
    /\ sdpDescription = NewSession
    /\ sdpText = NoText
    /\ sdpParsed = NotParsed
    /\ sctpMid = Undefined
    /\ candidatesSent = {}
    /\ icecandidate = NoCandidate
    /\ notified = {}

\* SCTP.client(transport) / SCTP.server(transport) over a transport that is up
InitSctp ==
    /\ InitAssociation
    /\ isServer \in BOOLEAN
    /\ InitPeerConnection
    /\ dtlsState = "connected"
    /\ lastOp = "new"
    /\ ret = "ok"

\* the life cycle of an association: set-up, shutdown, abort, T1 and T2
NextSctp ==
    \/ \E port \in Ports \cup {NoPort} : Start(port)
    \/ \E port \in Ports : SetRemotePort(port)
    \/ Stop
    \/ \E type \in DropTypes, tag \in Tags : HandleDataDrop(type, tag)
    \/ \E tsn \in InitialTsns, now \in Nows : ReceiveInit(PeerTag, tsn, now)
    \/ \E tsn \in InitialTsns, cookie \in AckCookies :
          ReceiveInitAck(PeerTag, tsn, cookie)
    \/ \E cookie \in EchoCookies, now \in Nows : ReceiveCookieEcho(cookie, now)
    \/ ReceiveCookieAck
    \/ ReceiveAbort
    \/ ReceiveShutdown
    \/ ReceiveShutdownComplete
    \/ ReceiveHeartbeat
    \/ \E type \in {"SACK", "ERROR"} : ReceiveUnused(type)
    \/ Timer1Expired
    \/ T1DeferredSend
    \/ Timer2Expired
    \/ T2DeferredSend

SpecSctp == InitSctp /\ [][NextSctp]_vars

\* an association that carries data: set-up, send, stream reconfiguration
\* and its timer, stop
NextStreams ==
    \/ \E port \in Ports : Start(port)
    \/ Stop
    \/ \E sid \in Streams, ordered \in BOOLEAN, userData \in PayloadLengths :
          Send(sid, ordered, userData)
    \/ \E tsn \in InitialTsns, now \in Nows : ReceiveInit(PeerTag, tsn, now)
    \/ \E tsn \in InitialTsns, cookie \in AckCookies :
          ReceiveInitAck(PeerTag, tsn, cookie)
    \/ \E cookie \in {StateCookie(now) : now \in Nows}, now \in Nows :
          ReceiveCookieEcho(cookie, now)
    \/ ReceiveCookieAck
    \/ \E seq \in ReqSeqs : ReceiveResetRequest(seq, << 1 >>)
    \/ \E rseq \in RespSeqs, result \in Results :
          ReceiveReconfigResponse(rseq, result)
    \/ \E seq \in AddSeqs : ReceiveStreamAdd(seq, 1)
    \/ TimerReconfigExpired

SpecStreams == InitSctp /\ [][NextStreams]_vars

\* an association with inbound and outbound user data
InitData ==
    /\ InitAssociationAt(DataLocalTsns)
    /\ isServer \in BOOLEAN
    /\ InitPeerConnection
    /\ dtlsState = "connected"
    /\ lastOp = "new"
    /\ ret = "ok"

NextData ==
    \/ \E port \in Ports : Start(port)
    \/ Stop
    \/ \E sid \in Streams, ordered \in BOOLEAN, userData \in PayloadLengths :
          Send(sid, ordered, userData)
    \/ \E tsn \in DataInitialTsns, now \in Nows : ReceiveInit(PeerTag, tsn, now)
    \/ \E tsn \in DataInitialTsns, cookie \in AckCookies :
          ReceiveInitAck(PeerTag, tsn, cookie)
    \/ \E cookie \in {StateCookie(now) : now \in Nows}, now \in Nows :
          ReceiveCookieEcho(cookie, now)
    \/ ReceiveCookieAck
    \/ \E tsn \in DataTsns, sid \in Streams :
          ReceiveData(tsn, sid, USERDATA_MAX_LENGTH)
    \/ \E tsn \in ForwardTsns : ReceiveForwardTsn(tsn)
    \/ ReceiveUnused("SACK")
    \/ \E tag \in Tags : HandleDataDrop("DATA", tag)

SpecData == InitData /\ [][NextData]_vars

\* a client association that receives user data
InitDeliver == InitData /\ ~isServer

NextDeliver ==
    \/ \E port \in Ports : Start(port)
    \/ Stop
    \/ \E tsn \in DataInitialTsns, cookie \in AckCookies :
          ReceiveInitAck(PeerTag, tsn, cookie)
    \/ ReceiveCookieAck
    \/ \E tsn \in DataTsns, sid \in Streams, userData \in PayloadLengths :
          ReceiveData(tsn, sid, userData)
    \/ \E tsn \in ForwardTsns : ReceiveForwardTsn(tsn)
    \/ \E tag \in Tags : HandleDataDrop("DATA", tag)

SpecDeliver == InitDeliver /\ [][NextDeliver]_vars

\* an association that sends user data, from its set-up to stop()
InitSend ==
    /\ InitAssociationAt(SendLocalTsns)
    /\ isServer \in BOOLEAN
    /\ InitPeerConnection
    /\ dtlsState = "connected"
    /\ lastOp = "new"
    /\ ret = "ok"

NextSend ==
    \/ \E port \in Ports \cup {NoPort} : Start(port)
    \/ \E port \in Ports : SetRemotePort(port)
    \/ Stop
    \/ \E sid \in Streams, ordered \in BOOLEAN, userData \in PayloadLengths :
          Send(sid, ordered, userData)
    \/ \E tsn \in InitialTsns, now \in Nows : ReceiveInit(PeerTag, tsn, now)
    \/ \E tsn \in InitialTsns, cookie \in AckCookies :
          ReceiveInitAck(PeerTag, tsn, cookie)
    \/ \E cookie \in {StateCookie(now) : now \in Nows}, now \in Nows :
          ReceiveCookieEcho(cookie, now)
    \/ ReceiveCookieAck

SpecSend == InitSend /\ [][NextSend]_vars

\* initialTsn of the peer of such an association
ResetInitialTsns == {5}

\* a client association that resets streams, with a T-Reconfig that runs to
\* its limit
NextReset ==
    \/ \E port \in Ports : Start(port)
    \/ Stop
    \/ \E sid \in Streams : Send(sid, TRUE, USERDATA_MAX_LENGTH)
    \/ \E tsn \in ResetInitialTsns, cookie \in AckCookies :
          ReceiveInitAck(PeerTag, tsn, cookie)
    \/ ReceiveCookieAck
    \/ \E seq \in ReqSeqs : ReceiveResetRequest(seq, << 1 >>)
    \/ \E rseq \in RespSeqs, result \in Results :
          ReceiveReconfigResponse(rseq, result)
    \/ TimerReconfigCallback

\* SCTP.client(transport) over a transport that is up
InitReset == InitSctp /\ ~isServer

SpecReset == InitReset /\ [][NextReset]_vars

\* the peer of NextSilent sends SHUTDOWN once: while the SHUTDOWN_ACK that
\* answers it is awaited (T2 armed) nothing more arrives
ShutdownOnce == ~timer2Handle

\* an association whose peer stops answering: INIT, COOKIE_ECHO and
\* SHUTDOWN_ACK stay unanswered (no COOKIE_ACK, SHUTDOWN_COMPLETE or ABORT
\* arrives) and T1 and T2 run to their limits
NextSilent ==
    \/ \E port \in Ports : Start(port)
    \/ \E port \in Ports : SetRemotePort(port)
    \/ Stop
    \/ \E tsn \in InitialTsns, cookie \in AckCookies :
          ReceiveInitAck(PeerTag, tsn, cookie)
    \/ (ShutdownOnce /\ ReceiveShutdown)
    \/ Timer1Callback
    \/ T1DeferredSend
    \/ Timer2Callback
    \/ T2DeferredSend

\* setTimeout and setImmediate run their callbacks: an armed timer fires and
\* a deferred retransmission runs
TimersFire ==
    /\ WF_vars(Timer1Callback)
    /\ WF_vars(T1DeferredSend)
    /\ WF_vars(Timer2Callback)
    /\ WF_vars(T2DeferredSend)

SpecSilent == InitSctp /\ [][NextSilent]_vars /\ TimersFire

\* a peer connection, the association of its SCTP transport and their peer
Init ==
    /\ InitAssociation
    /\ isServer = TRUE
    /\ InitPeerConnection
    /\ dtlsState = "new"
    /\ lastOp = "new"
    /\ ret = "ok"

Next ==
    \/ CreateOffer
    \/ CreateAnswer
    \/ \E d \in Sdps : SetLocalDescription(d)
    \/ LocalGathered
    \/ \E d \in Sdps : SetRemoteDescription(d)
    \/ RemoteGathered
    \/ AddIceCandidate
    \/ \E both \in BOOLEAN : CreateDataChannel(both)
    \/ NegotiationNeeded
    \/ \E i \in DOMAIN connects : ConnectIceStarted(i)
    \/ \E i \in DOMAIN connects, server \in BOOLEAN : ConnectDtlsStarted(i, server)
    \/ \E i \in DOMAIN connects : ConnectDone(i)
    \/ Close

Spec == Init /\ [][Next]_vars

\* offers and answers with one application section and a=sctp-port: of a
\* full agent, of an ice-lite agent, and of an ice-lite agent without a=setup
RoleAttrs ==
    {[ice |-> TRUE, sctpPort |-> 5000, role |-> "auto", iceLite |-> FALSE],
     [ice |-> TRUE, sctpPort |-> 5000, role |-> "auto", iceLite |-> TRUE],
     [ice |-> TRUE, sctpPort |-> 5000, role |-> "none", iceLite |-> TRUE]}

RoleSdps ==
    {[type |-> t, kinds |-> << "application" >>, ice |-> a.ice,
      sctpPort |-> a.sctpPort, role |-> a.role, iceLite |-> a.iceLite,
      muxId |-> AllocatedMid] :
        t \in SdpTypes, a \in RoleAttrs}

\* a peer connection that exchanges offers and answers with full and ice-lite
\* peers
NextRole ==
    \/ CreateDataChannel(FALSE)
    \/ NegotiationNeeded
    \/ \E d \in RoleSdps : SetLocalDescription(d)
    \/ LocalGathered
    \/ \E d \in RoleSdps : SetRemoteDescription(d)
    \/ RemoteGathered
    \/ \E i \in DOMAIN connects : ConnectIceStarted(i)
    \/ \E i \in DOMAIN connects, server \in BOOLEAN : ConnectDtlsStarted(i, server)

SpecRole == Init /\ [][NextRole]_vars

\* the text of an offer: made, carried and parsed
NextSdp ==
    \/ \E description \in Offers : ToJSON(description)
    \/ LfLineEnds
    \/ ParseSdp

SpecSdp == Init /\ [][NextSdp]_vars

\* offers and answers with one application section, with and without
\* a=sctp-port
IceSdps == {d \in Sdps : Len(d.kinds) = 1 /\ d.ice}

\* a peer connection with an ICE transport that changes its state and
\* transports whose start can be rejected
NextIce ==
    \/ \E d \in IceSdps : SetLocalDescription(d)
    \/ LocalGathered
    \/ \E d \in IceSdps : SetRemoteDescription(d)
    \/ RemoteGathered
    \/ CreateDataChannel(FALSE)
    \/ NegotiationNeeded
    \/ \E i \in DOMAIN connects : ConnectIceStarted(i)
    \/ \E i \in DOMAIN connects : ConnectFailed(i)
    \/ \E i \in DOMAIN connects, server \in BOOLEAN : ConnectDtlsStarted(i, server)
    \/ \E i \in DOMAIN connects : ConnectDone(i)
    \/ \E st \in IceStates : IceStateChange(st)
    \/ Close

SpecIce == Init /\ [][NextIce]_vars

\* a peer connection whose transports come up or fail: connect() and the
\* association it waits for
NextConnect ==
    \/ CreateDataChannel(FALSE)
    \/ NegotiationNeeded
    \/ \E d \in IceSdps : SetLocalDescription(d)
    \/ LocalGathered
    \/ \E d \in IceSdps : SetRemoteDescription(d)
    \/ RemoteGathered
    \/ \E i \in DOMAIN connects : ConnectIceStarted(i)
    \/ \E i \in DOMAIN connects : ConnectFailed(i)
    \/ \E i \in DOMAIN connects, server \in BOOLEAN : ConnectDtlsStarted(i, server)
    \/ \E i \in DOMAIN connects : ConnectDone(i)
    \/ \E tsn \in InitialTsns, now \in Nows : ReceiveInit(PeerTag, tsn, now)
    \/ \E tsn \in InitialTsns, cookie \in AckCookies :
          ReceiveInitAck(PeerTag, tsn, cookie)
    \/ \E cookie \in {StateCookie(now) : now \in Nows}, now \in Nows :
          ReceiveCookieEcho(cookie, now)
    \/ ReceiveCookieAck
    \/ ReceiveAbort

SpecConnect == Init /\ [][NextConnect]_vars

(* Renegotiation while connect() is in flight: a client that applies answers
   at any time *)
NextRenegotiate ==
    \/ CreateDataChannel(FALSE)
    \/ \E d \in IceSdps : SetLocalDescription(d)
    \/ LocalGathered
    \/ \E d \in IceSdps : SetRemoteDescriptionDuringConnect(d)
    \/ RemoteGathered
    \/ \E i \in DOMAIN connects : ConnectIceStarted(i)
    \/ \E i \in DOMAIN connects : ConnectFailed(i)
    \/ \E i \in DOMAIN connects : ConnectDtlsStarted(i, FALSE)
    \/ \E i \in DOMAIN connects : ConnectDone(i)
    \/ \E tsn \in InitialTsns, cookie \in AckCookies :
          ReceiveInitAck(PeerTag, tsn, cookie)
    \/ ReceiveCookieAck

SpecRenegotiate == Init /\ [][NextRenegotiate]_vars

(* Trickled candidates: descriptions with and without a=mid, and a gatherer
   that may report a candidate at any time and again *)
CandidateSdps ==
    {[d EXCEPT !.muxId = mid] : d \in IceSdps, mid \in {Undefined, AllocatedMid}}

NextCandidates ==
    \/ CreateDataChannel(FALSE)
    \/ CreateOffer
    \/ \E d \in CandidateSdps : SetLocalDescription(d)
    \/ LocalGathered
    \/ \E d \in CandidateSdps : SetRemoteDescription(d)
    \/ RemoteGathered
    \/ \E candidate \in GatheredCandidates : OnIceCandidate(candidate)

SpecCandidates == Init /\ [][NextCandidates]_vars

-----------------------------------------------------------------------------
(* Properties of the peer connection, under Spec *)

\* C1: signalingState changes, and signalingstatechange is emitted, only by
\* a transition of the offer/answer table -- setLocalDescription(offer) from
\* stable or have-local-offer to have-local-offer, setLocalDescription(answer)
\* from have-remote-offer or have-local-pranswer to stable,
\* setRemoteDescription(offer) from stable or have-remote-offer to
\* have-remote-offer, setRemoteDescription(answer) from have-local-offer or
\* have-remote-pranswer to stable -- or by close(), from any state to closed.
C1_SignalingTransitions ==
    [][LET table ==
               {<< "local", "offer", "stable", "have-local-offer" >>,
                << "local", "offer", "have-local-offer", "have-local-offer" >>,
                << "local", "answer", "have-remote-offer", "stable" >>,
                << "local", "answer", "have-local-pranswer", "stable" >>,
                << "remote", "offer", "stable", "have-remote-offer" >>,
                << "remote", "offer", "have-remote-offer", "have-remote-offer" >>,
                << "remote", "answer", "have-local-offer", "stable" >>,
                << "remote", "answer", "have-remote-pranswer", "stable" >>}
           moved ==
               \/ signalingState' # signalingState
               \/ \E i \in 1..Len(events') : events'[i] = "signalingstatechange"
       IN  moved =>
             \/ /\ lastOp' = "setLocalDescription"
                /\ \E d \in Sdps :
                      /\ << "local", d.type, signalingState, signalingState' >> \in table
                      /\ SetLocalDescription(d)
             \/ /\ lastOp' = "setRemoteDescription"
                /\ \E d \in Sdps :
                      /\ << "remote", d.type, signalingState, signalingState' >> \in table
                      /\ SetRemoteDescription(d)
             \/ lastOp' = "close" /\ signalingState' = "closed"]_vars

\* a remote answer was applied and took have-local-offer to stable
C1_Witness ==
    /\ lastOp = "setRemoteDescription"
    /\ ret = "ok"
    /\ signalingState = "stable"
    /\ currentRemoteDescription.type = "answer"
    /\ pendingLocalDescription.type = "offer"

\* C2: setLocalDescription or setRemoteDescription called with a description
\* type the table does not allow in the current signaling state fails, leaves
\* signalingState, the four stored descriptions, the ICE role, the DTLS role
\* and the transports as they were, and emits no signalingstatechange.
C2_DisallowedCallRejected ==
    [][LET rejected ==
               /\ ret' # "ok"
               /\ events' = << >>
               /\ UNCHANGED << signalingState, connectionState,
                               pendingLocalDescription, currentLocalDescription,
                               pendingRemoteDescription, currentRemoteDescription,
                               iceControlling, remoteIsLite, dtlsRole, dtlsState,
                               sctpTransport, sctpRemotePort, remotePort,
                               transportEstablished, connects,
                               associationState, state >>
           localStates(type) ==
               IF type = "offer" THEN {"stable", "have-local-offer"}
               ELSE {"have-remote-offer", "have-local-pranswer"}
           remoteStates(type) ==
               IF type = "offer" THEN {"stable", "have-remote-offer"}
               ELSE {"have-local-offer", "have-remote-pranswer"}
       IN  \/ lastOp' \notin {"setLocalDescription", "setRemoteDescription"}
           \/ rejected
           \/ /\ lastOp' = "setLocalDescription"
              /\ \A d \in Sdps :
                    signalingState \notin localStates(d.type)
                       => ~SetLocalDescription(d)
           \/ /\ lastOp' = "setRemoteDescription"
              /\ \A d \in Sdps :
                    signalingState \notin remoteStates(d.type)
                       => ~SetRemoteDescription(d)]_vars

\* a remote answer arrived in stable, after a completed negotiation, and was
\* refused
C2_Witness ==
    /\ lastOp = "setRemoteDescription"
    /\ ret = "Cannot handle answer in signaling state"
    /\ signalingState = "stable"
    /\ currentRemoteDescription.type = "answer"

\* C3: after close() the signaling state is closed, and each of createOffer,
\* createAnswer, setLocalDescription, setRemoteDescription, addIceCandidate
\* and createDataChannel is rejected with an error, returns no description
\* and creates no transport.
C3_ClosedRejectsCalls ==
    [][(isClosed /\ lastOp' \in {"createOffer", "createAnswer",
                                 "setLocalDescription", "setRemoteDescription",
                                 "addIceCandidate", "createDataChannel"})
          => /\ signalingState' = "closed"
             /\ ret' # "ok"
             /\ retDesc' = NoDesc
             /\ sctpTransport' = sctpTransport]_vars

\* C4: close() on a closed peer connection changes nothing: no
\* signalingstatechange and no connectionstatechange is emitted again, the
\* association sends no ABORT again, and every field is what the first close()
\* left.
C4_CloseIdempotent ==
    [][(isClosed /\ lastOp' = "close")
          => /\ events' = << >>
             /\ out' = << >>
             /\ sctpEvents' = << >> /\ received' = << >>
             /\ ret' = "ok"
             /\ UNCHANGED << pcState, associationState, started, state,
                             isServer, remotePort, remoteVerificationTag,
                             tsnVars, streamVars, reconfigVars, rto, sackVars,
                             timerVars >>]_vars

\* close() was called again on a peer connection whose client association
\* had left CLOSED, so that the first close() sent an ABORT
C4_Witness ==
    /\ lastOp = "close"
    /\ events = << >>
    /\ out = << >>
    /\ isClosed
    /\ sctpTransport /\ started /\ ~isServer
    /\ associationState = "CLOSED"
    /\ state = "closed"

C7_AnswerMirrorsOffer ==
    (lastOp = "createAnswer" /\ ret = "ok")
       => retDesc.kinds = pendingRemoteDescription.kinds

-----------------------------------------------------------------------------
(* Properties of the association *)

\* C5: after stop() the association is CLOSED and none of T1, T2 and
\* T-Reconfig is armed, and no timer callback runs while the connection state
\* is closed.
C5_ClosedStopsTimers ==
    [][/\ (lastOp' = "stop" /\ ret' = "ok")
             => /\ associationState' = "CLOSED"
                /\ ~timer1Handle'
                /\ ~timer2Handle'
                /\ timerReconfigHandle' = "none"
       /\ state = "closed"
             => lastOp' \notin {"timer1Expired", "timer2Expired",
                                "timerReconfigExpired"}]_vars

\* C8: a client association enters COOKIE_WAIT only from CLOSED, by start(),
\* having sent INIT and armed T1; COOKIE_ECHOED only from COOKIE_WAIT, by an
\* INIT_ACK, having sent COOKIE_ECHO with the cookie of that INIT_ACK;
\* ESTABLISHED only from COOKIE_ECHOED, by a COOKIE_ACK.  An INIT_ACK outside
\* COOKIE_WAIT and a COOKIE_ACK outside COOKIE_ECHOED change nothing and send
\* nothing.
C8_ClientSetUp ==
    [][LET ignored ==
               /\ UNCHANGED << associationState, started, state, isServer,
                               remotePort, remoteVerificationTag, tsnVars,
                               streamVars, reconfigVars, rto, sackVars, timerVars >>
               /\ out' = << >>
               /\ sctpEvents' = << >> /\ received' = << >>
       IN  /\ (/\ ~isServer
               /\ associationState' # associationState
               /\ associationState' \in {"COOKIE_WAIT", "COOKIE_ECHOED", "ESTABLISHED"})
                 => \/ /\ associationState = "CLOSED"
                       /\ associationState' = "COOKIE_WAIT"
                       /\ lastOp' = "start"
                       /\ Len(out') = 1 /\ out'[1].type = "INIT"
                       /\ timer1Handle' /\ timer1Chunk'.type = "INIT"
                    \/ /\ associationState = "COOKIE_WAIT"
                       /\ associationState' = "COOKIE_ECHOED"
                       /\ \E tsn \in InitialTsns, cookie \in AckCookies :
                             /\ ReceiveInitAck(PeerTag, tsn, cookie)
                             /\ Len(out') = 1
                             /\ out'[1].type = "COOKIE_ECHO"
                             /\ out'[1].cookie = cookie
                    \/ /\ associationState = "COOKIE_ECHOED"
                       /\ associationState' = "ESTABLISHED"
                       /\ lastOp' = "COOKIE_ACK"
           /\ (lastOp' = "INIT_ACK" /\ associationState # "COOKIE_WAIT") => ignored
           /\ (lastOp' = "COOKIE_ACK" /\ associationState # "COOKIE_ECHOED") => ignored]_vars

\* a client went all the way to ESTABLISHED and then ignored one more INIT_ACK
C8_Witness ==
    /\ ~isServer
    /\ associationState = "ESTABLISHED"
    /\ lastOp = "INIT_ACK"
    /\ ret = "ignored"
    /\ out = << >>

\* C9: a server association that receives INIT while CLOSED (it knows the
\* remote port and was not stopped) answers with an INIT_ACK carrying a state
\* cookie and stays CLOSED; a server association enters ESTABLISHED only by a
\* COOKIE_ECHO whose cookie validates, having sent COOKIE_ACK, and by no
\* other event.
C9_ServerSetUp ==
    [][/\ (/\ isServer /\ associationState = "CLOSED" /\ lastOp' = "INIT"
           /\ remotePort # NoPort /\ state # "closed")
             => /\ Len(out') = 1
                /\ out'[1].type = "INIT_ACK"
                /\ out'[1].cookie.len = COOKIE_LENGTH
                /\ associationState' = "CLOSED"
       /\ (isServer /\ associationState # "ESTABLISHED"
                    /\ associationState' = "ESTABLISHED")
             => /\ \E cookie \in EchoCookies, now \in Nows :
                      /\ ReceiveCookieEcho(cookie, now)
                      /\ ~CookieInvalid(cookie)
                      /\ ~CookieStale(cookie.stamp, now)
                /\ Len(out') = 1
                /\ out'[1].type = "COOKIE_ACK"]_vars

\* C10: an ESTABLISHED association that receives SHUTDOWN sends SHUTDOWN_ACK
\* and enters SHUTDOWN_SENT; a SHUTDOWN_COMPLETE received there cancels T2 and
\* closes the association.
C10_Shutdown ==
    [][/\ (associationState = "ESTABLISHED" /\ lastOp' = "SHUTDOWN")
             => /\ Len(out') = 1
                /\ out'[1].type = "SHUTDOWN_ACK"
                /\ associationState' = "SHUTDOWN_SENT"
       /\ (associationState = "SHUTDOWN_SENT" /\ lastOp' = "SHUTDOWN_COMPLETE")
             => /\ associationState' = "CLOSED"
                /\ ~timer2Handle']_vars

\* C11: an ABORT that passes the tag check closes the association whatever
\* state it is in: the association state is CLOSED, T1 and T2 are cancelled
\* and the connection state is closed
C11_AbortCloses ==
    [][lastOp' = "ABORT" =>
          /\ associationState' = "CLOSED"
          /\ ~timer1Handle' /\ timer1Chunk' = NoChunk
          /\ ~timer2Handle' /\ timer2Chunk' = NoChunk
          /\ state' = "closed"]_vars

\* an ABORT closed an association whose T2 had already expired once
C11_Witness ==
    /\ lastOp = "ABORT"
    /\ timer2Failures > 0
    /\ associationState = "CLOSED"
    /\ state = "closed"

-----------------------------------------------------------------------------
(* Properties of the data path, under SpecData *)

\* between two packets sackNeeded is false and sackDuplicates is empty: only
\* a sendSack that throws leaves them set, and no DATA or FORWARD-TSN is
\* accepted before the remote port is known (so the handlers of the other
\* chunk types end without a SACK)
SackIdle == ~sackNeeded /\ sackDuplicates = << >>

\* C12: user data moves only while the association is ESTABLISHED: a send in
\* COOKIE_WAIT or COOKIE_ECHOED hands no DATA chunk to the transport and
\* leaves the local TSN alone, and a DATA chunk that arrives then is not
\* delivered to onReceive
C12_DataOnlyEstablished ==
    [][(/\ lastOp' \in {"send", "DATA"}
        /\ associationState \in {"COOKIE_WAIT", "COOKIE_ECHOED"})
       => /\ (\E sid \in Streams, ordered \in BOOLEAN, userData \in PayloadLengths :
                 Send(sid, ordered, userData))
             => /\ localTsn' = localTsn
                /\ \A i \in DOMAIN out' : out'[i].type # "DATA"
          /\ (\E tsn \in DataTsns, sid \in Streams :
                 ReceiveData(tsn, sid, USERDATA_MAX_LENGTH))
             => received' = << >>]_vars

-----------------------------------------------------------------------------
(* Further properties of the association, under SpecSctp *)

\* C13: a packet whose verification tag is not the expected one (0 for an
\* INIT, the local tag for every other chunk) is dropped: the association
\* state, the TSN bookkeeping, the timers and the remote parameters stay as
\* they are, nothing is delivered and nothing is sent
C13_WrongTagDropped ==
    [][lastOp' = "handleData" =>
          \A type \in DropTypes, tag \in Tags :
              (/\ tag # (IF type = "INIT" THEN 0 ELSE LocalTag)
               /\ HandleDataDrop(type, tag))
              => /\ UNCHANGED << associationState, state, started, isServer >>
                 /\ UNCHANGED << tsnVars, sackVars, streamVars, reconfigVars >>
                 /\ UNCHANGED << timerVars, rto >>
                 /\ UNCHANGED << remotePort, remoteVerificationTag >>
                 /\ received' = << >>
                 /\ sctpEvents' = << >>
                 /\ out' = << >>]_vars

\* an ABORT with tag 0 was dropped while the client waited for INIT_ACK: T1
\* is still armed
C13_Witness ==
    /\ lastOp = "handleData"
    /\ ret = "dropped"
    /\ associationState = "COOKIE_WAIT"
    /\ timer1Handle

\* C14: every INIT handed to the transport carries verification tag 0, and
\* every other packet carries the initiateTag of the peer's INIT or INIT_ACK;
\* in particular the ABORT that stop() sends, also before the handshake
\* completed
C14_OutgoingTags ==
    \A i \in DOMAIN out :
        /\ out[i].type = "INIT" => out[i].vtag = 0
        /\ (lastOp = "stop" /\ out[i].type = "ABORT") => out[i].vtag = PeerTag

\* C15: a server accepts a COOKIE_ECHO (sends COOKIE_ACK and enters
\* ESTABLISHED) exactly when the cookie is 24 bytes long, its last 20 bytes
\* are the HMAC of its first four under this association's key, and its time
\* stamp t has now - 60 <= t <= now
C15_CookieAccepted ==
    [][(lastOp' = "COOKIE_ECHO" /\ isServer) =>
          \A cookie \in EchoCookies, now \in Nows :
              ReceiveCookieEcho(cookie, now) =>
                 ((/\ \E i \in DOMAIN out' : out'[i].type = "COOKIE_ACK"
                   /\ associationState' = "ESTABLISHED")
                  <=> (/\ cookie.len = 24
                       /\ cookie.digest = Hmac(HmacKey, cookie.stamp)
                       /\ now - 60 <= cookie.stamp
                       /\ cookie.stamp <= now))]_vars

\* C16: whenever the validation of a COOKIE_ECHO fails (wrong length, HMAC
\* mismatch, or time stamp outside [now - 60, now]) the server sends an ERROR
\* chunk with StaleCookieError and no COOKIE_ACK, and the association state
\* stays as it is
C16_InvalidCookieError ==
    [][(lastOp' = "COOKIE_ECHO" /\ isServer /\ state # "closed") =>
          \A cookie \in EchoCookies, now \in Nows :
              (/\ ReceiveCookieEcho(cookie, now)
               /\ \/ cookie.len # 24
                  \/ cookie.digest # Hmac(HmacKey, cookie.stamp)
                  \/ cookie.stamp < now - 60
                  \/ cookie.stamp > now)
              => /\ \E i \in DOMAIN out' :
                       /\ out'[i].type = "ERROR"
                       /\ out'[i].param.ptype = "StaleCookieError"
                 /\ \A i \in DOMAIN out' : out'[i].type # "COOKIE_ACK"
                 /\ associationState' = associationState]_vars

-----------------------------------------------------------------------------
(* Further properties of the data path, under SpecData *)

\* C17: send rejects a payload of more than 1200 bytes with
\* payload-too-large, synchronously and without transmitting any of it; a
\* payload of exactly 1200 bytes goes out as one DATA chunk
C17_PayloadLimit ==
    [][(lastOp' = "send" /\ associationState = "ESTABLISHED") =>
          \A sid \in Streams, ordered \in BOOLEAN, userData \in PayloadLengths :
              Send(sid, ordered, userData) =>
                 IF userData > 1200
                 THEN /\ ret' = "payload-too-large"
                      /\ out' = << >>
                      /\ UNCHANGED << localTsn, outboundStreamSeq >>
                 ELSE /\ ret' = "ok"
                      /\ Len(out') = 1
                      /\ out'[1].type = "DATA"
                      /\ out'[1].userData = userData]_vars

\* C18: an ESTABLISHED association hands no SACK to the transport, whatever
\* arrives (DATA in order, out of order or duplicated, FORWARD-TSN), and a
\* SACK that arrives changes nothing
C18_NoSack ==
    [][/\ associationState = "ESTABLISHED" =>
             \A i \in DOMAIN out' : out'[i].type # "SACK"
       /\ lastOp' = "SACK" =>
             /\ out' = << >>
             /\ received' = << >>
             /\ UNCHANGED << associationState, state, tsnVars, sackVars,
                             streamVars, reconfigVars, timerVars, rto >>]_vars

\* C19: after a DATA chunk was processed lastReceivedTsn is the largest TSN t
\* such that every TSN after the previous lastReceivedTsn up to t (modulo
\* 2^32) has been received, in whatever order the chunks arrived; stated for
\* an ESTABLISHED association and TSNs that have not wrapped since
\* lastReceivedTsn
C19_CumulativeTsn ==
    [][(/\ lastOp' = "DATA"
        /\ associationState = "ESTABLISHED"
        /\ \A x \in sackMisOrdered : x > lastReceivedTsn) =>
          \A tsn \in DataTsns, sid \in Streams :
              (tsn > lastReceivedTsn /\ ReceiveData(tsn, sid, USERDATA_MAX_LENGTH)) =>
                 LET got == sackMisOrdered \cup {tsn}
                     after(k) == (lastReceivedTsn + k) % SCTP_TSN_MODULO
                     run == {k \in 0..Cardinality(got) :
                                \A j \in 1..k : after(j) \in got}
                     most == CHOOSE k \in run : \A j \in run : j <= k
                 IN  lastReceivedTsn' = after(most)]_vars

(* Properties of outbound user data, under SpecSend *)

C21_SendOrder ==
    [][(\E i \in DOMAIN out' : out'[i].type = "DATA") =>
          /\ lastOp' = "send"
          /\ Len(out') = 1
          /\ out'[1].tsn = localTsn
          /\ lastDataTsn # NoTsn =>
                out'[1].tsn = (lastDataTsn + 1) % SCTP_TSN_MODULO]_vars

-----------------------------------------------------------------------------
(* Properties of the timers T1 and T2, under SpecSilent *)

\* C22: T1 and T2 count their failures separately. Every expiry of T1 adds
\* one to timer1Failures alone and, while the count is at most
\* SCTP_MAX_INIT_RETRANS, defers a retransmission that hands the pending INIT
\* or COOKIE_ECHO to the transport (unless the timer was armed on a stopped
\* association, whose chunk never left); the expiry that takes the count past the
\* limit closes the association. T2 does the same for the pending
\* SHUTDOWN_ACK with SCTP_MAX_ASSOCIATION_RETRANS. With timers that fire, an
\* association with an armed T1 or T2 whose peer stays silent reaches CLOSED.
C22_TimersClose ==
    /\ [][/\ lastOp' = "timer1Expired" =>
                /\ timer1Failures' = timer1Failures + 1
                /\ timer2Failures' = timer2Failures
                /\ IF timer1Failures' > SCTP_MAX_INIT_RETRANS
                   THEN associationState' = "CLOSED" /\ ~timer1Handle' /\ ~t1Deferred'
                   ELSE /\ associationState' = associationState
                        /\ timer1Handle' /\ t1Deferred'
          /\ lastOp' = "timer1Send" /\ timer1Handle /\ state # "closed" =>
                /\ timer1Chunk.type \in {"INIT", "COOKIE_ECHO"}
                /\ out' = SendChunk(state, remotePort, remoteVerificationTag,
                                    timer1Chunk)
                /\ Len(out') = 1
          /\ lastOp' = "timer2Expired" =>
                /\ timer2Failures' = timer2Failures + 1
                /\ timer1Failures' = timer1Failures
                /\ IF timer2Failures' > SCTP_MAX_ASSOCIATION_RETRANS
                   THEN associationState' = "CLOSED" /\ ~timer2Handle' /\ ~t2Deferred'
                   ELSE /\ associationState' = associationState
                        /\ timer2Handle' /\ t2Deferred'
          /\ lastOp' = "timer2Send" /\ timer2Handle /\ state # "closed" =>
                /\ timer2Chunk.type = "SHUTDOWN_ACK"
                /\ out' = SendChunk(state, remotePort, remoteVerificationTag,
                                    timer2Chunk)
                /\ Len(out') = 1]_vars
    /\ (timer1Handle \/ timer2Handle) ~> (associationState = "CLOSED")

\* both timers ran past their limits: T1 first, with nine failures, and then
\* T2, armed by a later SHUTDOWN, with eleven
C22_Witness ==
    /\ lastOp = "timer2Expired"
    /\ associationState = "CLOSED"
    /\ timer1Failures = SCTP_MAX_INIT_RETRANS + 1
    /\ timer2Failures = SCTP_MAX_ASSOCIATION_RETRANS + 1

-----------------------------------------------------------------------------
(* Properties of stream reconfiguration, under SpecReset *)

\* C23: one outgoing stream-reset request at a time. A request is stored and
\* sent only when none is outstanding or the step is the success response
\* that answers the outstanding one; every T-Reconfig expiry sets rto to
\* ceil(rto * 1.5) and counts one failure, the expiry that takes the count
\* past SCTP_MAX_ASSOCIATION_RETRANS closes the association and any earlier
\* one of an association that is not stopped sends the outstanding request
\* again and re-arms the timer; the matching success response received in
\* ESTABLISHED clears the request and cancels the timer or, with stream ids
\* queued, sends the request for them and arms the timer with a zero count.
C23_OneResetRequest ==
    [][/\ \A i \in DOMAIN out' :
             out'[i].param.ptype = "OutgoingSSNResetRequest" =>
                out'[i].param = reconfigRequest'
       /\ (reconfigRequest' # reconfigRequest /\ reconfigRequest' # NoParam) =>
             \/ reconfigRequest = NoParam
             \/ \E rseq \in RespSeqs :
                   /\ rseq = reconfigRequest.seq
                   /\ ReceiveReconfigResponse(rseq, SuccessPerformed)
       /\ lastOp' = "timerReconfigExpired" =>
             /\ 2 * rto' >= 3 * rto /\ 2 * rto' < 3 * rto + 2
             /\ timerReconfigFailures' = timerReconfigFailures + 1
             /\ IF timerReconfigFailures' > SCTP_MAX_ASSOCIATION_RETRANS
                THEN associationState' = "CLOSED" /\ timerReconfigHandle' = "none"
                ELSE (reconfigRequest # NoParam /\ state # "closed") =>
                        /\ out' = << [ReconfigChunk(reconfigRequest)
                                        EXCEPT !.vtag = remoteVerificationTag] >>
                        /\ timerReconfigHandle' = "armed"
                        /\ reconfigRequest' = reconfigRequest
                        /\ associationState' = associationState
       /\ (/\ lastOp' = "RECONFIG"
           /\ associationState = "ESTABLISHED"
           /\ reconfigRequest # NoParam
           /\ \E rseq \in RespSeqs :
                 /\ rseq = reconfigRequest.seq
                 /\ ReceiveReconfigResponse(rseq, SuccessPerformed)) =>
             IF reconfigQueue = << >>
             THEN /\ reconfigRequest' = NoParam
                  /\ timerReconfigHandle' = "none"
                  /\ out' = << >>
             ELSE /\ reconfigRequest'.ptype = "OutgoingSSNResetRequest"
                  /\ reconfigRequest'.streams = reconfigQueue
                  /\ reconfigRequest'.seq = tsnPlusOne(reconfigRequest.seq)
                  /\ reconfigQueue' = << >>
                  /\ Len(out') = 1 /\ out'[1].param = reconfigRequest'
                  /\ timerReconfigHandle' = "armed"
                  /\ timerReconfigFailures' = 0]_vars

\* T-Reconfig ran past its limit with the request still unanswered
C23_Witness ==
    /\ lastOp = "timerReconfigExpired"
    /\ timerReconfigFailures = SCTP_MAX_ASSOCIATION_RETRANS + 1
    /\ associationState = "CLOSED"
    /\ reconfigRequest # NoParam
    /\ rto = 315

\* C24 (under SpecStreams): a reconfiguration response leaves only in the
\* step that receives a peer request and carries that request's sequence
\* number, which is reconfigResponseSeq from then on; reconfigResponseSeq
\* changes otherwise only when an INIT or INIT_ACK sets it to the peer's
\* initial TSN minus one (modulo the width of the TSN space), and never again
\* once it holds the sequence number of a request
C24_ResponseSeq ==
    [][/\ \A i \in DOMAIN out' :
             out'[i].param.ptype = "ReconfigResponse" =>
                /\ lastOp' = "RECONFIG"
                /\ out'[i].param.rseq = reconfigResponseSeq'
                /\ \E seq \in ReqSeqs \cup AddSeqs :
                      /\ seq = reconfigResponseSeq'
                      /\ \/ ReceiveResetRequest(seq, << 1 >>)
                         \/ ReceiveStreamAdd(seq, 1)
       /\ reconfigResponseSeq' # reconfigResponseSeq =>
             \/ /\ lastOp' = "RECONFIG"
                /\ reconfigResponseSeq' \in ReqSeqs \cup AddSeqs
             \/ /\ lastOp' \in {"INIT", "INIT_ACK"}
                /\ reconfigResponseSeq \notin ReqSeqs \cup AddSeqs
                /\ \E tsn \in InitialTsns :
                      /\ reconfigResponseSeq' = (tsn - 1) % SCTP_TSN_MODULO
                      /\ \/ \E now \in Nows : ReceiveInit(PeerTag, tsn, now)
                         \/ \E cookie \in AckCookies :
                               ReceiveInitAck(PeerTag, tsn, cookie)]_vars

\* C25 (under SpecReset): rto starts at SCTP_RTO_INITIAL and stays within
\* SCTP_RTO_MIN .. SCTP_RTO_MAX in every reachable state
C25_RtoBounds ==
    /\ lastOp = "new" => rto = SCTP_RTO_INITIAL
    /\ SCTP_RTO_MIN <= rto /\ rto <= SCTP_RTO_MAX

-----------------------------------------------------------------------------
(* Further properties of the peer connection, under Spec *)

\* C26: a negotiationneeded notification is delivered only while
\* signalingState is stable
C26_NegotiationStable ==
    (\E i \in DOMAIN events : events[i] = "negotiationneeded") =>
        signalingState = "stable"

-----------------------------------------------------------------------------
(* Properties of the connection state, under SpecIce *)

\* C27: the step in which the aggregated ICE connection state becomes failed
\* sets connectionState to failed and emits connectionstatechange
C27_IceFailed ==
    [][(iceConnectionState' = "failed" /\ iceConnectionState # "failed") =>
          /\ connectionState' = "failed"
          /\ \E i \in DOMAIN events' : events'[i] = "connectionstatechange"]_vars

-----------------------------------------------------------------------------
(* Properties of the ICE role, under SpecRole *)

\* C28: after a completed offer/answer exchange over the application section
\* the ICE role is settled: the side whose local offer was answered is
\* controlling; the side that applied a local answer is controlled, unless
\* the remote offer it answered advertises ice-lite, and then it is
\* controlling
C28_IceRole ==
    (ret = "ok" /\ signalingState = "stable" /\ sctpTransport) =>
        /\ lastOp = "setRemoteDescription" => iceControlling = "true"
        /\ lastOp = "setLocalDescription" =>
              iceControlling = IF RemoteDescription.iceLite THEN "true" ELSE "false"

-----------------------------------------------------------------------------
(* Properties of the text of a session description, under SpecSdp *)

\* C29: the text of every offer with one application section that the
\* implementation emits parses without an error, serialising the parsed
\* description gives the emitted text again, line for line and token for
\* token, and the text with LF line ends parses to the same description as
\* the text with CRLF line ends
C29_RoundTrip ==
    lastOp = "parse" =>
        /\ ret = "ok"
        /\ String(sdpParsed) = String(sdpDescription)
        /\ sdpParsed = Parse(String(sdpDescription))

\* a text with LF line ends was parsed: two candidates, end-of-candidates,
\* a fingerprint, a=setup, a=mid, a=sctp-port and a=max-message-size
C29_Witness ==
    /\ lastOp = "parse"
    /\ sdpText.eol = "LF"
    /\ Len(sdpParsed.media) = 1
    /\ Len(sdpParsed.media[1].iceCandidates) = MaxCandidates
    /\ sdpParsed.media[1].iceCandidatesComplete
    /\ sdpParsed.media[1].dtlsParams.defined
    /\ Len(sdpParsed.media[1].dtlsParams.fingerprints) = 1
    /\ sdpParsed.media[1].muxId = "0dc"
    /\ sdpParsed.media[1].sctpPort = 5000
    /\ sdpParsed.media[1].sctpCapabilities = 65536

-----------------------------------------------------------------------------
(* Properties of connect(), under SpecConnect *)

\* C30: the connection state becomes connected only at the end of a
\* connect() whose ICE and DTLS transports started and, where an SCTP
\* transport with a known remote port exists, whose association reported
\* connected; and when a step of a connect() in flight fails (a start
\* rejects, or the association it waits for closes) the connection state
\* becomes failed
C30_ConnectOrder ==
    [][/\ (connectionState' = "connected" /\ connectionState # "connected") =>
              /\ lastOp' = "connect done"
              /\ \E i \in DOMAIN connects :
                    /\ connects[i] \in {"end", "done"}
                    /\ connects[i] = "done" => dtlsState = "connected"
       /\ lastOp' = "connect failed" => connectionState' = "failed"
       /\ ((\E i \in DOMAIN connects : connects[i] = "sctp")
           /\ associationState # "CLOSED" /\ associationState' = "CLOSED") =>
              connectionState' = "failed"]_vars

-----------------------------------------------------------------------------
(* Further properties of the association, under SpecSctp *)

\* C34: closed is terminal for an association: once its connection state is
\* closed, no inbound packet brings it back to ESTABLISHED or out of closed,
\* and none makes it hand a packet to the transport
C34_ClosedTerminal ==
    [][(state = "closed" /\ lastOp' \in {"INIT", "INIT_ACK", "COOKIE_ECHO",
                                          "COOKIE_ACK", "ABORT", "SHUTDOWN",
                                          "SHUTDOWN_COMPLETE", "HEARTBEAT"}) =>
          /\ state' = "closed"
          /\ associationState' # "ESTABLISHED"
          /\ out' = << >>]_vars

\* C35: a further INIT that reaches an ESTABLISHED server association
\* changes neither its remote verification tag nor lastReceivedTsn,
\* reconfigResponseSeq or the negotiated stream counts
C35_InitKeepsAssociation ==
    [][(isServer /\ associationState = "ESTABLISHED" /\ lastOp' = "INIT") =>
          UNCHANGED << remoteVerificationTag, lastReceivedTsn, reconfigResponseSeq,
                       inboundStreamsCount, outboundStreamsCount >>]_vars

\* C36: every TSN-valued variable of the association (localTsn,
\* lastReceivedTsn once set, reconfigRequestSeq, reconfigResponseSeq and the
\* TSN in an outstanding stream-reset request) lies in [0, 2^32), here in
\* [0, SCTP_TSN_MODULO)
C36_TsnRange ==
    LET InRange(tsn) == tsn \in 0..(SCTP_TSN_MODULO - 1)
    IN  /\ InRange(localTsn)
        /\ lastReceivedTsn # NoTsn => InRange(lastReceivedTsn)
        /\ InRange(reconfigRequestSeq)
        /\ InRange(reconfigResponseSeq)
        /\ reconfigRequest # NoParam => InRange(reconfigRequest.tsn)

-----------------------------------------------------------------------------
(* Further properties of inbound data, under SpecDeliver *)

\* C37: the step that processes an inbound DATA chunk with the right tag
\* calls onReceive exactly once, with the stream id and user data of that
\* chunk, also when its TSN was received before; no other step calls
\* onReceive
C37_DataDelivered ==
    [][/\ lastOp' # "DATA" => received' = << >>
       /\ lastOp' = "DATA" =>
             /\ Len(received') = 1
             /\ \A tsn \in DataTsns, sid \in Streams, userData \in PayloadLengths :
                   ReceiveData(tsn, sid, userData) =>
                       received' = << [streamId |-> sid, userData |-> userData] >>]_vars

\* a DATA chunk whose TSN was received before has been delivered: the SACK
\* that answers it reports the duplicate
C37_Witness ==
    /\ lastOp = "DATA"
    /\ Len(received) = 1
    /\ Len(out) = 1
    /\ out[1].type = "SACK"
    /\ out[1].duplicates # << >>

-----------------------------------------------------------------------------
(* Properties of the out-of-order set, under SpecData *)

\* C40: after a step that runs markReceived or receiveForwardTsnChunk every
\* TSN in sackMisOrdered and every TSN in sackDuplicates (as the SACK of
\* the step reports them, or as they stay behind when the SACK could not be
\* sent) is greater than lastReceivedTsn in the serial order; and a
\* FORWARD-TSN whose cumulative TSN is not greater than lastReceivedTsn
\* changes neither lastReceivedTsn nor sackMisOrdered
C40_OutOfOrder ==
    [][/\ lastOp' \in {"DATA", "FORWARD_TSN"} =>
             /\ \A x \in sackMisOrdered' : uint32Gt(x, lastReceivedTsn')
             /\ \A i \in DOMAIN sackDuplicates' :
                   uint32Gt(sackDuplicates'[i], lastReceivedTsn')
             /\ \A j \in DOMAIN out' : out'[j].type = "SACK" =>
                   \A i \in DOMAIN out'[j].duplicates :
                       uint32Gt(out'[j].duplicates[i], lastReceivedTsn')
       /\ lastOp' = "FORWARD_TSN" =>
             \A c \in ForwardTsns :
                 (~uint32Gt(c, lastReceivedTsn) /\ ReceiveForwardTsn(c)) =>
                     UNCHANGED << lastReceivedTsn, sackMisOrdered >>]_vars

-----------------------------------------------------------------------------
(* Properties of the deferred retransmissions, under SpecSctp *)

\* C32: the retransmission deferred from an expiry of T1 or T2 never
\* attempts to send an undefined chunk, and when the timer was cancelled
\* since the expiry it puts nothing on the transport
C32_DeferredSendDefined ==
    [][/\ lastOp' \in {"timer1Send", "timer2Send"} => ret' # "undefined chunk"
       /\ (lastOp' = "timer1Send" /\ ~timer1Handle) => (out' = << >> /\ ret' = "ok")
       /\ (lastOp' = "timer2Send" /\ ~timer2Handle) => (out' = << >> /\ ret' = "ok")]_vars

-----------------------------------------------------------------------------
(* Further properties of the connection state, under SpecIce *)

\* C33: once the connection state of a peer connection is closed it never
\* changes again
C33_ClosedStays ==
    [][connectionState = "closed" => connectionState' = "closed"]_vars

(* Properties of renegotiation, under SpecRenegotiate *)

\* C38: the transport start-up sequence runs at most once: an answer applied
\* while an earlier connect() is still awaiting its transports does not begin
\* the sequence (iceTransport.start(), dtlsTransport.start()) again
C38_StartOnce ==
    [][Len(connects') > Len(connects) => connects = << >>]_vars

(* Properties of the trickled candidates, under SpecCandidates *)

C39_FailedRemoteKeeps ==
    [][(/\ lastOp' = "setRemoteDescription"
        /\ ret' \in {"invalid media kind", "sctpRemotePort not exist"}) =>
          UNCHANGED << pendingRemoteDescription, currentRemoteDescription,
                       signalingState, sctpTransport >>]_vars

====
